---- MODULE Spec2Model ----
(***************************************************************************)
(* Model of the job-discovery-and-qualification engine of mini-tsenta:     *)
(*   - the API server's AiService (embedding cache, cosine similarity and  *)
(*     the two relevance gates),                                           *)
(*   - the API server's store controllers (companies, applications) over   *)
(*     tables with per-user unique indexes,                                *)
(*   - the desktop main process: the start/stop/pause/resume handlers and  *)
(*     the traversal loop of the start-automation handler.                 *)
(*   - the local classifier of the first desktop main process              *)
(*     (src/main/ollama.ts): the title gate and its in-process cache.      *)
(* Four specifications share the module: SpecAi (AiService under           *)
(* concurrent requests), SpecStore (concurrent controller requests), Spec  *)
(* (the desktop main process against the store and the AI gates) and       *)
(* SpecLocal (calls of the local title gate while the profile changes).    *)
(***************************************************************************)
EXTENDS Integers, Sequences, FiniteSets, TLC

(***************************************************************************)
(* Bounds of the exploration.                                              *)
(***************************************************************************)
\* AiService requests that may be begun in one behaviour of SpecAi.
MaxAiRequests == 3

(***************************************************************************)
(* Text: a string is a sequence of one-character strings.                  *)
(***************************************************************************)
\* The characters JavaScript's \s and String.prototype.trim treat as white space.
WhiteSpace == {" ", "\t", "\n"}

RECURSIVE TrimStart(_)
TrimStart(s) ==
  IF s = <<>> THEN <<>>
  ELSE IF Head(s) \in WhiteSpace THEN TrimStart(Tail(s)) ELSE s

RECURSIVE TrimEnd(_)
TrimEnd(s) ==
  IF s = <<>> THEN <<>>
  ELSE IF s[Len(s)] \in WhiteSpace THEN TrimEnd(SubSeq(s, 1, Len(s) - 1)) ELSE s

\* String.prototype.trim
Trim(s) == TrimEnd(TrimStart(s))

\* s.replace(/\s\s/g, " "): a collapse of pairs of white space, which leaves
\* white space behind in a run of three.
RECURSIVE CollapsePairs(_)
CollapsePairs(s) ==
  IF s = <<>> THEN <<>>
  ELSE IF Len(s) >= 2 /\ s[1] \in WhiteSpace /\ s[2] \in WhiteSpace
       THEN <<" ">> \o CollapsePairs(Tail(Tail(s)))
       ELSE <<Head(s)>> \o CollapsePairs(Tail(s))

\* s.replace(/\s+/g, " "): every maximal run of white space becomes one space.
RECURSIVE CollapseWhiteSpace(_)
CollapseWhiteSpace(s) ==
  IF s = <<>> THEN <<>>
  ELSE IF Head(s) \in WhiteSpace
       THEN <<" ">> \o CollapseWhiteSpace(TrimStart(s))
       ELSE <<Head(s)>> \o CollapseWhiteSpace(Tail(s))

\* AiService.normalizeEmbeddingText
NormalizeEmbeddingText(text) == CollapseWhiteSpace(Trim(text))

\* AiService.getEmbeddingHash: SHA-256 of the normalized text, hex encoded.
\* The digest is modelled as collision free: a tagged copy of its input.
GetEmbeddingHash(normalizedText) == <<"sha256", normalizedText>>

(***************************************************************************)
(* Vectors and cosine similarity.  A vector is a sequence of integers.     *)
(* A JavaScript number that the gates compute is kept exact: a similarity  *)
(* is NaN, or the real number dot / sqrt(msq).                             *)
(***************************************************************************)
RECURSIVE SumSquares(_)
SumSquares(v) == IF v = <<>> THEN 0 ELSE Head(v) * Head(v) + SumSquares(Tail(v))

\* vecA.reduce((sum, a, i) => sum + a * vecB[i], 0): vecB[i] is undefined past
\* the end of vecB and the sum becomes NaN from there on.
RECURSIVE DotFrom(_, _, _)
DotFrom(vecA, vecB, i) ==
  IF i > Len(vecA) THEN 0 ELSE vecA[i] * vecB[i] + DotFrom(vecA, vecB, i + 1)

DotIsNaN(vecA, vecB) == Len(vecA) > Len(vecB)

NaNSimilarity == [nan |-> TRUE, dot |-> 0, msq |-> 1]
ZeroSimilarity == [nan |-> FALSE, dot |-> 0, msq |-> 1]

\* AiService.cosineSimilarity
CosineSimilarity(vecA, vecB) ==
  LET magSqA == SumSquares(vecA)
      magSqB == SumSquares(vecB)
  IN  IF magSqA = 0 \/ magSqB = 0 THEN ZeroSimilarity
      ELSE IF DotIsNaN(vecA, vecB) THEN NaNSimilarity
      ELSE [nan |-> FALSE, dot |-> DotFrom(vecA, vecB, 1), msq |-> magSqA * magSqB]

\* p / q <= dot / sqrt(msq), for q > 0 and msq > 0, in exact arithmetic.
RatioLeqSim(p, q, sim) ==
  IF p <= 0 /\ sim.dot >= 0 THEN TRUE
  ELSE IF p > 0 /\ sim.dot < 0 THEN FALSE
  ELSE IF p > 0 THEN p * p * sim.msq <= q * q * sim.dot * sim.dot
  ELSE p * p * sim.msq >= q * q * sim.dot * sim.dot

\* similarity > threshold: a comparison that leaves equality out.
SimilarityAbove(sim, hundredths) ==
  /\ ~sim.nan
  /\ RatioLeqSim(hundredths, 100, sim)
  /\ hundredths * hundredths * sim.msq # 10000 * sim.dot * sim.dot

\* similarity >= threshold, the threshold given in hundredths; false for NaN.
SimilarityAtLeast(sim, hundredths) ==
  ~sim.nan /\ RatioLeqSim(hundredths, 100, sim)

\* Math.round(similarity * 100): the integer s with s - 1/2 <= 100 * sim < s + 1/2,
\* found by its decade first.
RoundTimes100(sim) ==
  LET tens == CHOOSE t \in -11..10 :
                /\ RatioLeqSim(20 * t - 1, 200, sim)
                /\ ~RatioLeqSim(20 * t + 19, 200, sim)
  IN  CHOOSE s \in (10 * tens)..(10 * tens + 9) :
        /\ RatioLeqSim(2 * s - 1, 200, sim)
        /\ ~RatioLeqSim(2 * s + 1, 200, sim)

\* private titleThreshold = 0.45, private descriptionThreshold = 0.45
TitleThreshold == 45
DescriptionThreshold == 45

\* The value a gate returns: score is meaningful unless scoreNaN.
GateResult(relevant, score, scoreNaN) ==
  [relevant |-> relevant, score |-> score, scoreNaN |-> scoreNaN]

\* the fail-open result, { relevant: true, score: -1 }
FailOpen == GateResult(TRUE, -1, FALSE)

\* A gate without the guard on empty vectors: the similarity decides alone.
RelevanceOfUnguarded(embedding, userProfileEmbedding, threshold) ==
  LET similarity == CosineSimilarity(embedding, userProfileEmbedding)
  IN  IF similarity.nan THEN GateResult(FALSE, 0, TRUE)
      ELSE GateResult(SimilarityAtLeast(similarity, threshold),
                      RoundTimes100(similarity), FALSE)

\* The synchronous tail of isJobTitleRelevant / isJobRelevant once the job
\* text's embedding is known.
RelevanceOf(embedding, userProfileEmbedding, threshold) ==
  IF Len(embedding) = 0 \/ Len(userProfileEmbedding) = 0 THEN FailOpen
  ELSE LET similarity == CosineSimilarity(embedding, userProfileEmbedding)
       IN  IF similarity.nan THEN GateResult(FALSE, 0, TRUE)
           ELSE GateResult(SimilarityAtLeast(similarity, threshold),
                           RoundTimes100(similarity), FALSE)

ThresholdOf(kind) == IF kind = "title" THEN TitleThreshold ELSE DescriptionThreshold

(***************************************************************************)
(* State.                                                                  *)
(***************************************************************************)
VARIABLES
  \* --- API server, AiService ---
  embeddingCache,  \* table JobTextEmbedding: rows [model, textHash, normalizedText, embedding]
  aiReq,           \* gate requests in flight: slot -> position and locals
  embedCalls,      \* history: normalized text -> calls of ollama.embed made for it
  aiLast,          \* history: the outcome of the gate request that completed last
  aiBegun,         \* history: gate requests begun so far
  aiOverlap,       \* history: two gate requests have been in flight at once
  \* --- API server, store controllers ---
  companyTable,     \* table Company: rows [id, userId, url, name, status]
  applicationTable, \* table Application: rows [id, userId, jobUrl, coverLetter, status, matchScore]
  nextId,           \* the next row id (ids are fresh per insert)
  storeReq,         \* controller requests in flight: slot -> position and arguments
  storeLast,        \* history: the response that was sent last
  storeBegun,       \* history: controller requests begun so far
  appStoreDone      \* history: (user, jobUrl) keys an answered create-application carried

  \* --- desktop main process ---
VARIABLES
  automationRunning, \* index.ts: let automationRunning
  isPaused,          \* index.ts: let isPaused
  userProfile,       \* index.ts: let userProfile (NoProfile stands for null)
  currentUserId,     \* api.ts: let currentUserId (NoUser stands for null)
  quit,              \* "no", "armed" (the stop handler's timer runs), "done" (app.quit ran)
  page,              \* the BrowserView's page: [url, back, scrollY]
  loops,             \* the invocations of the start-automation handler: id -> locals
  faults,            \* environment: whether navigation, store and AI calls may fail
  pageUserId,        \* environment: the user id in the page's localStorage, or NoUser
  stopSeen,          \* history: a stop signal has been delivered
  stepsAfterRestart, \* history: loop steps taken since the handler was invoked again
  companyVisits      \* history: company pages navigated to, and the first navigated to again

  \* --- first desktop main process, local classifier (src/main) ---
VARIABLES
  jobTitleCache,   \* ollama.ts: const jobTitleCache, a Map: entries [key, value] in insertion order
  profileEmbedding, \* index.ts: userProfile.embedding
  titleCall,       \* the call of isJobTitleRelevant in flight: [pc, jobTitle, userProfileEmbedding]
  titleLast,       \* history: the call that returned last: [jobTitle, userProfileEmbedding, result]
  titlesStored,    \* history: entries stored in jobTitleCache so far
  profileChanges   \* history: runs of the save-resume handler so far

localVars ==
  <<jobTitleCache, profileEmbedding, titleCall, titleLast, titlesStored, profileChanges>>

mainVars ==
  <<automationRunning, isPaused, userProfile, currentUserId, quit, page, loops,
    faults, pageUserId, stopSeen, stepsAfterRestart, companyVisits>>

storeVars ==
  <<companyTable, applicationTable, nextId, storeReq, storeLast, storeBegun, appStoreDone>>

aiVars == <<embeddingCache, aiReq, embedCalls, aiLast, aiBegun, aiOverlap>>

(***************************************************************************)
(* AiService under concurrent requests (SpecAi).                           *)
(***************************************************************************)
\* process.env.OLLAMA_MODEL_EMBEDDING || "qwen3-embedding:0.6b"
ModelEmbedding == "qwen3-embedding:0.6b"

\* Job texts the requests carry (the controller rejects the empty string).
Texts == { <<"a">>, <<" ", "a", "\t">>, <<"a", "\t", " ", "\n", "b">>, <<"\t", " ">> }

Norms == { NormalizeEmbeddingText(t) : t \in Texts }

\* What ollama.embed may answer with; getEmbedding turns a failure into [].
\* <<3, 4>> is at cosine 0.6 of <<1, 0>>.
EmbedOutcomes == { <<>>, <<3, 4>>, <<0, -1>> }

\* Profile vectors the requests carry: <<-1, 3, 2, 1, 1>>, of magnitude 4, is
\* at cosine 0.45 of <<3, 4>> and at cosine -0.75 of <<0, -1>>; <<1>> is
\* shorter than every embedding.
Profiles == { <<>>, <<1, 0>>, <<1>>, <<-1, 3, 2, 1, 1>> }

GateKinds == {"title", "description"}

AiSlots == {1, 2}

IdleReq == [pc |-> "idle", text |-> <<>>, embedding |-> <<>>, begunCached |-> FALSE]

NoOutcome ==
  [kind |-> "none", profile |-> <<>>, embedding |-> <<>>, threw |-> FALSE,
   cached |-> FALSE, result |-> FailOpen]

\* prisma.jobTextEmbedding.findUnique({ where: { model_textHash } })
CacheRows(cache, model, textHash) ==
  { row \in cache : row.model = model /\ row.textHash = textHash }

CacheHas(cache, normalizedText) ==
  CacheRows(cache, ModelEmbedding, GetEmbeddingHash(normalizedText)) # {}

\* prisma.jobTextEmbedding.upsert: create the row, or update the row of the key.
CacheUpsert(cache, model, textHash, normalizedText, embedding) ==
  (cache \ CacheRows(cache, model, textHash))
    \cup { [model |-> model, textHash |-> textHash,
            normalizedText |-> normalizedText, embedding |-> embedding] }

\* isJobTitleRelevant (kind "title") / isJobRelevant (kind "description") once
\* getOrCreateCachedEmbedding has returned `embedding`.
GateReturn(kind, embedding, userProfileEmbedding, begunCached) ==
  [kind |-> kind, profile |-> userProfileEmbedding, embedding |-> embedding,
   threw |-> FALSE, cached |-> begunCached,
   result |-> RelevanceOf(embedding, userProfileEmbedding, ThresholdOf(kind))]

\* The gate's catch block: an exception of getOrCreateCachedEmbedding is logged
\* and the fail-open result returned.
GateCatch(kind, userProfileEmbedding, begunCached) ==
  [kind |-> kind, profile |-> userProfileEmbedding, embedding |-> <<>>,
   threw |-> FALSE, cached |-> begunCached, result |-> FailOpen]

\* The request in slot r returns through its gate.  The gate (title or
\* description) and the profile vector are arguments that the code first reads
\* here, after the embedding is known, so they are drawn here.
AiReturn(r, embedding) ==
  /\ \E kind \in GateKinds, profile \in Profiles :
       aiLast' = GateReturn(kind, embedding, profile, aiReq[r].begunCached)
  /\ aiReq' = [aiReq EXCEPT ![r] = IdleReq]

InFlight(r) == aiReq[r].pc # "idle"

\* A gate is entered and getOrCreateCachedEmbedding runs to its first await: an
\* empty normalized text returns [] at once.
AiBegin(r) ==
  /\ aiReq[r].pc = "idle"
  /\ aiBegun < MaxAiRequests
  /\ \E text \in Texts :
       LET normalizedText == NormalizeEmbeddingText(text)
       IN  IF normalizedText = <<>>
           THEN /\ AiReturn(r, <<>>)
                /\ aiOverlap' = aiOverlap
           ELSE /\ aiReq' = [aiReq EXCEPT ![r] =
                       [pc |-> "lookup", text |-> text, embedding |-> <<>>,
                        begunCached |-> CacheHas(embeddingCache, normalizedText)]]
                /\ aiLast' = aiLast
                /\ aiOverlap' = (aiOverlap \/ \E q \in AiSlots \ {r} : InFlight(q))
  /\ aiBegun' = aiBegun + 1
  /\ UNCHANGED <<embeddingCache, embedCalls>>
  /\ UNCHANGED <<storeVars, mainVars, localVars>>

\* A lookup that ignores the cache: every request misses.
LookupAlwaysMisses(r) == {}

\* The row findUnique answers with for the request in slot r: the set is empty
\* on a miss.
LookupRows(r) ==
  CacheRows(embeddingCache, ModelEmbedding,
            GetEmbeddingHash(NormalizeEmbeddingText(aiReq[r].text)))

\* await prisma.jobTextEmbedding.findUnique(...): a hit returns the cached
\* vector, a miss goes on to the embedding call, a database error is thrown
\* into the gate's catch block.
AiLookup(r) ==
  /\ aiReq[r].pc = "lookup"
  /\ \/ /\ LookupRows(r) # {}
        /\ \E row \in LookupRows(r) : AiReturn(r, row.embedding)
     \/ /\ LookupRows(r) = {}
        /\ aiReq' = [aiReq EXCEPT ![r].pc = "embed"]
        /\ aiLast' = aiLast
     \/ /\ \E kind \in GateKinds, profile \in Profiles :
             aiLast' = GateCatch(kind, profile, aiReq[r].begunCached)
        /\ aiReq' = [aiReq EXCEPT ![r] = IdleReq]
  /\ UNCHANGED <<embeddingCache, embedCalls, aiBegun, aiOverlap>>
  /\ UNCHANGED <<storeVars, mainVars, localVars>>

\* A check that lets the empty answer of a failed embedding call through.
EmptyEmbeddingAccepted(embedding) == FALSE

\* if (embedding.length === 0) return []
EmbeddingIsEmpty(embedding) == Len(embedding) = 0

\* await this.getEmbedding(normalizedText): one call of ollama.embed; an empty
\* answer is returned without a cache write.
AiEmbed(r) ==
  /\ aiReq[r].pc = "embed"
  /\ embedCalls' =
       [embedCalls EXCEPT ![NormalizeEmbeddingText(aiReq[r].text)] = @ + 1]
  /\ \E embedding \in EmbedOutcomes :
       IF EmbeddingIsEmpty(embedding)
       THEN AiReturn(r, <<>>)
       ELSE /\ aiReq' = [aiReq EXCEPT ![r].pc = "persist",
                                      ![r].embedding = embedding]
            /\ aiLast' = aiLast
  /\ UNCHANGED <<embeddingCache, aiBegun, aiOverlap>>
  /\ UNCHANGED <<storeVars, mainVars, localVars>>

\* await prisma.jobTextEmbedding.upsert(...) inside try/catch: a failed write
\* is logged; the embedding is returned either way.
AiPersist(r) ==
  /\ aiReq[r].pc = "persist"
  /\ LET normalizedText == NormalizeEmbeddingText(aiReq[r].text)
     IN  \/ embeddingCache' =
              CacheUpsert(embeddingCache, ModelEmbedding,
                          GetEmbeddingHash(normalizedText), normalizedText,
                          aiReq[r].embedding)
         \/ embeddingCache' = embeddingCache
  /\ AiReturn(r, aiReq[r].embedding)
  /\ UNCHANGED <<embedCalls, aiBegun, aiOverlap>>
  /\ UNCHANGED <<storeVars, mainVars, localVars>>

(***************************************************************************)
(* The store: tables with their unique indexes, and the controllers.       *)
(***************************************************************************)
\* request.header("x-user-id") of a request that carries no such header
NoUser == "<none>"

\* CREATE UNIQUE INDEX "Company_url_userId_key" ON "Company"("url", "userId")
CompanyRows(table, userId, url) ==
  { row \in table : row.userId = userId /\ row.url = url }

\* CREATE UNIQUE INDEX "Application_jobUrl_userId_key" ON "Application"("jobUrl", "userId")
ApplicationRows(table, userId, jobUrl) ==
  { row \in table : row.userId = userId /\ row.jobUrl = jobUrl }

\* An Application table without the unique index: no insert is rejected.
NoUniqueIndex(table, userId, jobUrl) == FALSE

\* Whether the unique index of Application rejects an insert of the key.
ApplicationKeyTaken(table, userId, jobUrl) ==
  ApplicationRows(table, userId, jobUrl) # {}

\* A Company table whose unique index is on the url alone.
CompanyUrlTaken(table, userId, url) == \E row \in table : row.url = url

\* A Company table without the unique index: no insert is rejected.
NoCompanyIndex(table, userId, url) == FALSE

\* Whether the unique index of Company rejects an insert of the key.
CompanyKeyTaken(table, userId, url) ==
  CompanyRows(table, userId, url) # {}

\* data.status || "<default>": an absent or empty status takes the default.
StatusOr(status, default) == IF status = "" THEN default ELSE status

\* The row prisma.company.create inserts.
CompanyRow(id, userId, data) ==
  [id |-> id, userId |-> userId, url |-> data.url, name |-> data.name,
   status |-> StatusOr(data.status, "visited")]

\* The row prisma.application.create inserts.
ApplicationRow(id, userId, data) ==
  [id |-> id, userId |-> userId, jobUrl |-> data.jobUrl,
   coverLetter |-> data.coverLetter, status |-> StatusOr(data.status, "submitted"),
   matchScore |-> data.matchScore]

\* A response: the HTTP status and the rows of its body.
Response(status, rows) == [status |-> status, rows |-> rows]

\* A find that does not look at the header: a request without it is searched
\* like any other.
FindWithoutHeaderCheck(rows, userId, keyGiven) ==
  IF ~keyGiven THEN [status |-> 400, rows |-> {}]
  ELSE IF rows = {} THEN [status |-> 404, rows |-> {}]
  ELSE [status |-> 200, rows |-> rows]

\* CompaniesController.findByUrl / ApplicationsController.findByJobUrl, which
\* have one await: 401 without the header, 400 without the key, 404 or the row.
FindResponse(rows, userId, keyGiven) ==
  IF userId = NoUser THEN Response(401, {})
  ELSE IF ~keyGiven THEN Response(400, {})
  ELSE IF rows = {} THEN Response(404, {})
  ELSE Response(200, rows)

\* An index that does not filter by user: every row of the table is listed.
IndexOfAllUsers(table, userId) == Response(200, table)

\* CompaniesController.index / ApplicationsController.index
IndexResponse(table, userId) ==
  IF userId = NoUser THEN Response(200, {})
  ELSE Response(200, { row \in table : row.userId = userId })

(***************************************************************************)
(* The controllers under concurrent requests (SpecStore).  A store request *)
(* runs in two awaited steps: findUnique, then create.                     *)
(***************************************************************************)
\* Controller requests that may be begun in one behaviour of SpecStore.
MaxStoreRequests == 3

StoreSlots == {1, 2}
StoreUsers == {"u1", "u2"}
StoreUrls == {"x", "y"}

IdleStoreReq == [pc |-> "idle", op |-> "none", userId |-> NoUser, key |-> "", status |-> ""]

NoResponse == [op |-> "none", userId |-> NoUser, key |-> "", status |-> 0, rows |-> {}]

Answer(r, resp) ==
  /\ storeLast' = [op |-> storeReq[r].op, userId |-> storeReq[r].userId,
                   key |-> storeReq[r].key, status |-> resp.status, rows |-> resp.rows]
  /\ storeReq' = [storeReq EXCEPT ![r] = IdleStoreReq]

\* A request arrives and its handler runs to its first await: store answers
\* 401 at once when the header is missing, index and find have one await.
StoreBegin(r) ==
  /\ storeReq[r].pc = "idle"
  /\ storeBegun < MaxStoreRequests
  /\ storeBegun' = storeBegun + 1
  /\ \E op \in {"company.store", "company.find", "company.index",
                "application.store", "application.find", "application.index"},
        userId \in StoreUsers \cup {NoUser}, key \in StoreUrls :
       LET req == [pc |-> "find", op |-> op, userId |-> userId, key |-> key,
                   status |-> IF op = "company.store" THEN "" ELSE "skipped"]
       IN  IF op \in {"company.store", "application.store"} /\ userId = NoUser
           THEN /\ storeLast' = [op |-> op, userId |-> userId, key |-> key,
                                 status |-> 401, rows |-> {}]
                /\ storeReq' = storeReq
           ELSE /\ storeReq' = [storeReq EXCEPT ![r] = req]
                /\ storeLast' = storeLast
  /\ UNCHANGED <<companyTable, applicationTable, nextId, appStoreDone>>
  /\ UNCHANGED <<aiVars, mainVars, localVars>>

\* The awaited read of a handler: findUnique (find, store) or findMany (index).
\* store answers 409 with the existing row, or goes on to create.
StoreFind(r) ==
  /\ storeReq[r].pc = "find"
  /\ LET req == storeReq[r]
         isCompany == req.op \in {"company.store", "company.find", "company.index"}
         table == IF isCompany THEN companyTable ELSE applicationTable
         rows == IF isCompany THEN CompanyRows(table, req.userId, req.key)
                 ELSE ApplicationRows(table, req.userId, req.key)
     IN  IF req.op \in {"company.index", "application.index"}
         THEN /\ Answer(r, IndexResponse(table, req.userId))
              /\ appStoreDone' = appStoreDone
         ELSE IF req.op \in {"company.find", "application.find"}
         THEN /\ Answer(r, FindResponse(rows, req.userId, req.key # ""))
              /\ appStoreDone' = appStoreDone
         ELSE IF rows # {}
         THEN /\ Answer(r, Response(409, rows))
              /\ appStoreDone' =
                   IF isCompany THEN appStoreDone
                   ELSE appStoreDone \cup {<<req.userId, req.key>>}
         ELSE /\ storeReq' = [storeReq EXCEPT ![r].pc = "create"]
              /\ storeLast' = storeLast
              /\ appStoreDone' = appStoreDone
  /\ UNCHANGED <<companyTable, applicationTable, nextId, storeBegun>>
  /\ UNCHANGED <<aiVars, mainVars, localVars>>

\* Payloads of the create requests of SpecStore.
CompanyData(url, status) == [url |-> url, name |-> "n", status |-> status]
ApplicationData(jobUrl, status) ==
  [jobUrl |-> jobUrl, coverLetter |-> "text", status |-> status, matchScore |-> 50]

\* prisma.application.create: the unique index rejects a second row of the key
\* (the handler does not catch the error: the request is answered 500).
ApplicationCreate(table, id, userId, data) ==
  IF ApplicationKeyTaken(table, userId, data.jobUrl)
  THEN [table |-> table, response |-> Response(500, {})]
  ELSE [table |-> table \cup {ApplicationRow(id, userId, data)},
        response |-> Response(201, {ApplicationRow(id, userId, data)})]

\* prisma.company.create, likewise.
CompanyCreate(table, id, userId, data) ==
  IF CompanyKeyTaken(table, userId, data.url)
  THEN [table |-> table, response |-> Response(500, {})]
  ELSE [table |-> table \cup {CompanyRow(id, userId, data)},
        response |-> Response(201, {CompanyRow(id, userId, data)})]

\* The awaited create of store.
StoreCreate(r) ==
  /\ storeReq[r].pc = "create"
  /\ LET req == storeReq[r]
     IN  IF req.op = "company.store"
         THEN LET out == CompanyCreate(companyTable, nextId, req.userId,
                                       CompanyData(req.key, req.status))
              IN  /\ companyTable' = out.table
                  /\ Answer(r, out.response)
                  /\ UNCHANGED <<applicationTable, appStoreDone>>
         ELSE LET out == ApplicationCreate(applicationTable, nextId, req.userId,
                                           ApplicationData(req.key, req.status))
              IN  /\ applicationTable' = out.table
                  /\ Answer(r, out.response)
                  /\ appStoreDone' = appStoreDone \cup {<<req.userId, req.key>>}
                  /\ UNCHANGED companyTable
  /\ nextId' = IF storeLast'.status = 201 THEN nextId + 1 ELSE nextId
  /\ UNCHANGED storeBegun
  /\ UNCHANGED <<aiVars, mainVars, localVars>>

StoreInit ==
  /\ companyTable = {}
  /\ applicationTable = {}
  /\ nextId = 1
  /\ storeReq = [r \in StoreSlots |-> IdleStoreReq]
  /\ storeLast = NoResponse
  /\ storeBegun = 0
  /\ appStoreDone = {}

StoreNext == \E r \in StoreSlots : StoreBegin(r) \/ StoreFind(r) \/ StoreCreate(r)

AiInit ==
  /\ embeddingCache = {}
  /\ aiReq = [r \in AiSlots |-> IdleReq]
  /\ embedCalls = [n \in Norms |-> 0]
  /\ aiLast = NoOutcome
  /\ aiBegun = 0
  /\ aiOverlap = FALSE

AiNext ==
  \E r \in AiSlots : AiBegin(r) \/ AiLookup(r) \/ AiEmbed(r) \/ AiPersist(r)

(***************************************************************************)
(* The desktop main process (Spec): the world it drives.                   *)
(* A URL or href is a sequence of path segments; an absolute URL starts    *)
(* with the origin.                                                        *)
(***************************************************************************)
\* Invocations of the start-automation handler in one behaviour.
MaxLoops == 2
\* Entries of the page's session history that are kept for goBack.
MaxBack == 2
\* Scroll offsets of the listing, in units of one mouse.wheel(0, 3000).
MaxScrollY == 1
\* Steps the loops take after the start-automation handler is invoked again.
MaxStepsAfterRestart == 4

Loops == 1..MaxLoops

Origin == "https://www.workatastartup.com"
ListUrl == <<Origin, "companies">>
Elsewhere == <<"https://example.org">>

\* partialUrl.startsWith("http")
IsAbsolute(url) == url # <<>> /\ Head(url) \in {Origin, Head(Elsewhere)}

\* getFullUrl
GetFullUrl(partialUrl) ==
  IF IsAbsolute(partialUrl) THEN partialUrl ELSE <<Origin>> \o partialUrl

\* s.includes("/" + segment + "/"): the segment occurs and another follows it.
IncludesDir(url, segment) == \E k \in 1..(Len(url) - 1) : url[k] = segment

\* s.includes("/" + segment): the segment occurs.
IncludesSeg(url, segment) == \E k \in 1..Len(url) : url[k] = segment

\* page.url().includes("/companies") && !page.url().includes("/companies/")
IsListUrl(url) == IncludesSeg(url, "companies") /\ ~IncludesDir(url, "companies")

\* p.url().includes("workatastartup.com")
IsTargetSite(url) == url # <<>> /\ Head(url) = Origin

\* relativeUrl.replace("/companies/", "")
CompanyNameOf(relativeUrl) ==
  IF Len(relativeUrl) >= 2 /\ Head(relativeUrl) = "companies"
  THEN Tail(relativeUrl) ELSE relativeUrl

CompanyA == <<"companies", "a">>
CompanyB == <<"companies", "b">>
CompanyC == <<"companies", "c">>
Job1 == <<"jobs", "1">>
Job2 == <<"jobs", "2">>

\* The anchors of the listing page, in DOM order, at scroll offset y: the
\* listing loads further companies as it is scrolled.
ListingAnchors(y) ==
  << CompanyA, <<"companies", "a", "jobs", "1">>, CompanyA, <<"companies", "a", "website">> >>
    \o (IF y >= 1 THEN << CompanyB, CompanyC >> ELSE << >>)

\* document.querySelectorAll('a[href^="/companies/"]') on the page at url.
CompanyAnchors(url, y) ==
  IF IsListUrl(url)
  THEN SelectSeq(ListingAnchors(y), LAMBDA h : Len(h) >= 2 /\ Head(h) = "companies")
  ELSE << >>

\* The filter of the extraction: no job links, no absolute links, no
\* website, twitter or linkedin links.
IsCompanyHref(href) ==
  /\ ~IncludesDir(href, "jobs")
  /\ ~IsAbsolute(href)
  /\ ~IncludesSeg(href, "website")
  /\ ~IncludesSeg(href, "twitter")
  /\ ~IncludesSeg(href, "linkedin")

\* .filter((value, index, self) => self.indexOf(value) === index)
RECURSIVE Deduplicate(_)
Deduplicate(seq) ==
  IF seq = << >> THEN << >>
  ELSE LET front == Deduplicate(SubSeq(seq, 1, Len(seq) - 1))
           last == seq[Len(seq)]
       IN  IF \E k \in 1..Len(front) : front[k] = last THEN front
           ELSE Append(front, last)

\* companiesOnScreen
CompaniesOnScreen(url, y) ==
  Deduplicate(SelectSeq(CompanyAnchors(url, y), IsCompanyHref))

JobLink(text, href) == [text |-> text, href |-> href]

\* page.locator('a[href*="/jobs/"]').all() on the page at url: the job links
\* of a company page, with their inner text (the page of company c has none).
JobLinksAt(url) ==
  IF url = GetFullUrl(CompanyA)
  THEN << JobLink(<<"A", "p", "p", "l", "y">>, Job1),
          JobLink(<<" ", "E", "n", "g", "i", "n", "e", "e", "r">>, Job1) >>
  ELSE IF url = GetFullUrl(CompanyB)
  THEN << JobLink(<<"D", "e", "v", " ">>, Job2),
          JobLink(<<"V", "i", "e", "w", " ", "j", "o", "b">>, Job2) >>
  ELSE << >>

(***************************************************************************)
(* The title filter.                                                       *)
(***************************************************************************)
ToLower(c) ==
  CASE c = "A" -> "a" [] c = "V" -> "v" [] c = "S" -> "s" [] c = "O" -> "o"
    [] c = "D" -> "d" [] c = "E" -> "e" [] OTHER -> c

ActionWords ==
  { <<"v", "i", "e", "w">>, <<"a", "p", "p", "l", "y">>, <<"s", "e", "e">>,
    <<"o", "p", "e", "n">> }

\* the title starts with the word, whatever the case
StartsWithWord(title, word) ==
  /\ Len(title) >= Len(word)
  /\ \A k \in 1..Len(word) : ToLower(title[k]) = word[k]

\* /^(view|apply|see|open)\s/i.test(jobTitle)
MatchesActionPattern(jobTitle) ==
  \E word \in ActionWords :
    /\ StartsWithWord(jobTitle, word)
    /\ Len(jobTitle) > Len(word)
    /\ jobTitle[Len(word) + 1] \in WhiteSpace

\* jobTitle.length < 5
MinTitleLength == 5

\* jobTitle.length < 5 || /^(view|apply|see|open)\s/i.test(jobTitle)
TitleFiltered(jobTitle) ==
  Len(jobTitle) < MinTitleLength \/ MatchesActionPattern(jobTitle)

(***************************************************************************)
(* The API client (api.ts) against the store controllers.                  *)
(***************************************************************************)
\* The answer of a request that the server failed.
ServerError == Response(500, {})

\* request(): a response outside 200-299 is thrown as an Error whose message
\* carries the status.
RequestThrows(resp) == resp.status < 200 \/ resp.status > 299

\* e.message.includes("404")
MessageIncludes404(resp) == resp.status = 404

\* An existence check that answers "does not exist" whatever the store says.
CheckExistsNever(resp) == "false"

\* api.checkCompanyExists / api.checkApplicationExists: "true", "false", or
\* "throw" for every failure but a 404.
CheckExists(resp) ==
  IF ~RequestThrows(resp) THEN "true"
  ELSE IF MessageIncludes404(resp) THEN "false"
  ELSE "throw"

\* What the store answers to GET /companies/search of the client.
CompanySearch(userId, url) ==
  FindResponse(CompanyRows(companyTable, userId, url), userId, url # << >>)

\* What the store answers to GET /applications/search of the client.
ApplicationSearch(userId, jobUrl) ==
  FindResponse(ApplicationRows(applicationTable, userId, jobUrl), userId, jobUrl # << >>)

\* CompaniesController.store, run without interleaving.
CompanyStore(table, id, userId, data) ==
  IF userId = NoUser THEN [table |-> table, response |-> Response(401, {})]
  ELSE IF CompanyKeyTaken(table, userId, data.url)
  THEN [table |-> table, response |-> Response(409, CompanyRows(table, userId, data.url))]
  ELSE CompanyCreate(table, id, userId, data)

\* The id of a row the loop's create request inserts: rows are never deleted,
\* so the number of rows of the table names an id no row of the table has.
FreshId(table) == Cardinality(table) + 1

\* ApplicationsController.store, run without interleaving.
ApplicationStore(table, id, userId, data) ==
  IF userId = NoUser THEN [table |-> table, response |-> Response(401, {})]
  ELSE IF ApplicationKeyTaken(table, userId, data.jobUrl)
  THEN [table |-> table,
        response |-> Response(409, ApplicationRows(table, userId, data.jobUrl))]
  ELSE ApplicationCreate(table, id, userId, data)

(***************************************************************************)
(* The desktop main process: signal handlers.                              *)
(***************************************************************************)
\* userProfile = null
NoProfile == [loaded |-> FALSE, text |-> "", embedding |-> << >>]
\* The profile save-resume stores: the resume text and the persona embedding.
TheProfile == [loaded |-> TRUE, text |-> "resume", embedding |-> <<1, 0>>]

NoResult == GateResult(FALSE, 0, FALSE)
NoCreate == [op |-> "none", status |-> 0, report |-> "none"]
\* History of the job link in hand: the "Applied" marker was seen, how the
\* chat call of the generation ended, the cover letter was typed, and the
\* create request that was sent for the job.
NoJob == [applied |-> FALSE, chat |-> "none", typed |-> FALSE, sent |-> "none"]

IdleLoop ==
  [pc |-> "idle", exit |-> "none", userIdFound |-> FALSE,
   onScreen |-> << >>, k |-> 0, newCompanies |-> << >>, ci |-> 0,
   jobLinks |-> << >>, ji |-> 0, titleResult |-> NoResult, fitResult |-> NoResult,
   stage |-> "none", listScrollY |-> 0, companyScrollY |-> 0, coverLetter |-> "",
   created |-> NoCreate, stoppedPaused |-> FALSE,
   companyStatus |-> 0, failedAt |-> "none", surfaced |-> FALSE,
   job |-> NoJob, notFound |-> {}, checked |-> FALSE]

SleepPcs == {"outerSleep", "companySleep", "jobSleep"}

\* The loop of invocation i is between its setup and its exit.
Active(i) == loops[i].pc \notin {"idle", "connect", "ended"}

\* The handler's promise has settled, or the handler was never invoked.
Settled(i) == loops[i].pc \in {"idle", "ended"}

\* The start-automation handler has been invoked more than once.
Restarted == \E j \in Loops : j > 1 /\ loops[j].pc # "idle"

\* The invocation records its next position.
Step(i, l) ==
  /\ Restarted => stepsAfterRestart < MaxStepsAfterRestart
  /\ stepsAfterRestart' = (IF Restarted THEN stepsAfterRestart + 1 ELSE stepsAfterRestart)
  /\ loops' = [loops EXCEPT ![i] = l]

\* The catch of the handler's outer try: the error's message is sent to the
\* operator's log and the handler returns; automationRunning is not touched.
\* failedAt keeps the position of the await that threw.
Fail(l) ==
  [l EXCEPT !.pc = "ended", !.exit = "error", !.failedAt = l.pc, !.surfaced = TRUE]

\* ipcMain.handle("start-automation"): without a profile the handler throws;
\* otherwise it sets automationRunning and goes on to attach to the browser.
\* Concurrent invocations are explored in the environment without faults.
Start(i) ==
  /\ quit # "done"
  /\ loops[i].pc = "idle"
  /\ \A j \in Loops : j < i => loops[j].pc # "idle"
  /\ i > 1 => ~faults
  /\ IF ~userProfile.loaded
     THEN /\ Step(i, [loops[i] EXCEPT !.pc = "ended", !.exit = "no-profile"])
          /\ UNCHANGED automationRunning
     ELSE /\ Step(i, [loops[i] EXCEPT !.pc = "connect"])
          /\ automationRunning' = TRUE
  /\ UNCHANGED <<isPaused, userProfile, currentUserId, quit, page, faults,
                 pageUserId, stopSeen, companyVisits>>
  /\ UNCHANGED <<storeVars, aiVars, localVars>>

\* A stop handler that clears automationRunning alone.
PausedKeptAtStop(paused) == paused

\* stop-automation: isPaused = false
PausedAfterStop(paused) == FALSE

\* ipcMain.on("stop-automation"): both flags are cleared and app.quit() is
\* scheduled one second later.
Stop ==
  /\ quit # "done"
  /\ automationRunning' = FALSE
  /\ isPaused' = PausedAfterStop(isPaused)
  /\ quit' = "armed"
  /\ stopSeen' = TRUE
  /\ loops' = [i \in Loops |->
                 IF loops[i].pc \in SleepPcs
                 THEN [loops[i] EXCEPT !.stoppedPaused = TRUE] ELSE loops[i]]
  /\ UNCHANGED <<userProfile, currentUserId, page, faults, pageUserId,
                 stepsAfterRestart, companyVisits>>
  /\ UNCHANGED <<storeVars, aiVars, localVars>>

\* The timer of the stop handler fires: app.quit() ends the process.
Quit ==
  /\ quit = "armed"
  /\ quit' = "done"
  /\ automationRunning' = FALSE
  /\ isPaused' = FALSE
  /\ userProfile' = NoProfile
  /\ currentUserId' = NoUser
  /\ page' = [url |-> ListUrl, back |-> << >>, scrollY |-> 0]
  /\ loops' = [i \in Loops |-> IdleLoop]
  /\ UNCHANGED <<faults, pageUserId, stopSeen, stepsAfterRestart, companyVisits>>
  /\ UNCHANGED <<storeVars, aiVars, localVars>>

\* ipcMain.on("pause-automation")
Pause ==
  /\ quit # "done"
  /\ isPaused' = (IF automationRunning THEN TRUE ELSE isPaused)
  /\ UNCHANGED <<automationRunning, userProfile, currentUserId, quit, page, loops,
                 faults, pageUserId, stopSeen, stepsAfterRestart, companyVisits>>
  /\ UNCHANGED <<storeVars, aiVars, localVars>>

\* ipcMain.on("resume-automation")
Resume ==
  /\ quit # "done"
  /\ isPaused' = (IF automationRunning /\ isPaused THEN FALSE ELSE isPaused)
  /\ UNCHANGED <<automationRunning, userProfile, currentUserId, quit, page, loops,
                 faults, pageUserId, stopSeen, stepsAfterRestart, companyVisits>>
  /\ UNCHANGED <<storeVars, aiVars, localVars>>

\* ipcMain.handle("save-resume"), for the first resume: the profile is set
\* unless parsing or an AI request fails.
SaveResume ==
  /\ quit # "done"
  /\ ~userProfile.loaded
  /\ \/ userProfile' = TheProfile
     \/ faults /\ userProfile' = userProfile
  /\ UNCHANGED <<automationRunning, isPaused, currentUserId, quit, page, loops,
                 faults, pageUserId, stopSeen, stepsAfterRestart, companyVisits>>
  /\ UNCHANGED <<storeVars, aiVars, localVars>>

(***************************************************************************)
(* The page.                                                               *)
(***************************************************************************)
LastEntries(seq, n) ==
  IF Len(seq) <= n THEN seq ELSE SubSeq(seq, Len(seq) - n + 1, Len(seq))

\* page.goto(url): a new history entry, scrolled to the top.
Goto(p, url) ==
  [url |-> url, back |-> LastEntries(Append(p.back, p.url), MaxBack), scrollY |-> 0]

\* page.goBack(): the previous history entry, if there is one.
GoBack(p) ==
  IF p.back = << >> THEN p
  ELSE [url |-> p.back[Len(p.back)], back |-> SubSeq(p.back, 1, Len(p.back) - 1),
        scrollY |-> 0]

\* window.scrollTo(0, y)
ScrollTo(p, y) == [p EXCEPT !.scrollY = y]

\* page.mouse.wheel(0, 3000)
Wheel(p) == [p EXCEPT !.scrollY = IF @ < MaxScrollY THEN @ + 1 ELSE @]

(***************************************************************************)
(* The traversal loop.  A position (pc) names the await the invocation is  *)
(* suspended at; an action is the completion of that await and the         *)
(* synchronous code up to the next await.                                  *)
(***************************************************************************)
\* while (automationRunning) { while (isPaused && automationRunning) ...;
\* if (!automationRunning) break; isListUrl ... }, evaluated on the page url.
\* Leaving the loop logs "Automation stopped." and closes the connection.
\* The history of the create requests is kept for one scan.
WhileTop(l, url) ==
  LET fresh == [l EXCEPT !.onScreen = << >>, !.k = 0, !.newCompanies = << >>, !.ci = 0,
                         !.created = NoCreate, !.checked = FALSE]
  IN  IF ~automationRunning THEN [fresh EXCEPT !.pc = "ended", !.exit = "stopped"]
      ELSE IF isPaused THEN [fresh EXCEPT !.pc = "outerSleep"]
      ELSE IF IsListUrl(url) THEN [fresh EXCEPT !.pc = "waitLinks"]
      ELSE [fresh EXCEPT !.pc = "listGoto"]

\* A company loop that opens the company page without the create request.
CompanyHeadWithoutCreate(l, url) ==
  LET fresh == [l EXCEPT !.jobLinks = << >>, !.ji = 0, !.listScrollY = 0,
                         !.companyStatus = 0]
  IN  IF fresh.ci > Len(fresh.newCompanies) THEN WhileTop(fresh, url)
      ELSE IF isPaused /\ automationRunning THEN [fresh EXCEPT !.pc = "companySleep"]
      ELSE IF ~automationRunning THEN WhileTop(fresh, url)
      ELSE [fresh EXCEPT !.pc = "gotoCompany"]

\* for (const relativeUrl of newCompanies) { while (isPaused && automationRunning)
\* ...; if (!automationRunning) break; ... }, at company index l.ci.
CompanyHead(l, url) ==
  LET fresh == [l EXCEPT !.jobLinks = << >>, !.ji = 0, !.listScrollY = 0,
                         !.companyStatus = 0]
  IN  IF fresh.ci > Len(fresh.newCompanies) THEN WhileTop(fresh, url)
      ELSE IF isPaused /\ automationRunning THEN [fresh EXCEPT !.pc = "companySleep"]
      ELSE IF ~automationRunning THEN WhileTop(fresh, url)
      ELSE [fresh EXCEPT !.pc = "createCompany"]

\* A job loop without the pause poll: only the stop is looked at.
JobHeadWithoutPoll(l) ==
  LET fresh == [l EXCEPT !.titleResult = NoResult, !.fitResult = NoResult,
                         !.stage = "none", !.companyScrollY = 0, !.coverLetter = "",
                         !.job = NoJob]
  IN  IF fresh.ji > Len(fresh.jobLinks) THEN [fresh EXCEPT !.pc = "listBack"]
      ELSE IF ~automationRunning THEN [fresh EXCEPT !.pc = "listBack"]
      ELSE [fresh EXCEPT !.pc = "jobRead"]

\* for (const jobLink of jobLinks) { while (isPaused && automationRunning) ...;
\* if (!automationRunning) break; ... }, at job index l.ji; after the loop the
\* handler returns to the list.
JobHead(l) ==
  LET fresh == [l EXCEPT !.titleResult = NoResult, !.fitResult = NoResult,
                         !.stage = "none", !.companyScrollY = 0, !.coverLetter = "",
                         !.job = NoJob]
  IN  IF fresh.ji > Len(fresh.jobLinks) THEN [fresh EXCEPT !.pc = "listBack"]
      ELSE IF isPaused /\ automationRunning THEN [fresh EXCEPT !.pc = "jobSleep"]
      ELSE IF ~automationRunning THEN [fresh EXCEPT !.pc = "listBack"]
      ELSE [fresh EXCEPT !.pc = "jobRead"]

\* continue in the job loop
NextJob(l) == JobHead([l EXCEPT !.ji = @ + 1])

\* continue in the company loop
NextCompany(l, url) == CompanyHead([l EXCEPT !.ci = @ + 1], url)

RelativeUrl(l) == l.newCompanies[l.ci]
JobLinkOf(l) == l.jobLinks[l.ji]
\* const jobTitle = (await jobLink.innerText()).trim()
JobTitleOf(l) == Trim(JobLinkOf(l).text)
FullJobUrl(l) == GetFullUrl(JobLinkOf(l).href)

mainFrame ==
  <<automationRunning, isPaused, userProfile, quit, faults, pageUserId, stopSeen,
    companyVisits>>

\* The history of visits after a navigation to the page of a company: the
\* companies navigated to, and the first of them that was navigated to again.
Visited(visits, relativeUrl) ==
  IF relativeUrl \in visits.once
  THEN [visits EXCEPT !.again = IF @ = {} THEN {relativeUrl} ELSE @]
  ELSE [visits EXCEPT !.once = @ \cup {relativeUrl}]

\* chromium.connectOverCDP, the search for the target page, and the lookup of
\* the user id in localStorage.
Connect(i) ==
  /\ quit # "done"
  /\ loops[i].pc = "connect"
  /\ \/ /\ faults \/ ~IsTargetSite(page.url)
        /\ Step(i, Fail(loops[i]))
        /\ UNCHANGED currentUserId
     \/ /\ IsTargetSite(page.url)
        /\ currentUserId' = (IF pageUserId # NoUser THEN pageUserId ELSE currentUserId)
        /\ Step(i, WhileTop([loops[i] EXCEPT !.userIdFound = (pageUserId # NoUser)],
                            page.url))
  /\ UNCHANGED <<mainFrame, page, storeVars, aiVars, localVars>>

\* The 500 ms sleep of the outer pause poll has elapsed.
OuterSleep(i) ==
  /\ quit # "done"
  /\ loops[i].pc = "outerSleep"
  /\ Step(i, WhileTop(loops[i], page.url))
  /\ UNCHANGED <<mainFrame, currentUserId, page, storeVars, aiVars, localVars>>

\* await page.goto(list); await page.waitForTimeout(2000)
ListGoto(i) ==
  /\ quit # "done"
  /\ loops[i].pc = "listGoto"
  /\ \/ /\ page' = Goto(page, ListUrl)
        /\ Step(i, [loops[i] EXCEPT !.pc = "waitLinks"])
     \/ /\ faults
        /\ page' = page
        /\ Step(i, Fail(loops[i]))
  /\ UNCHANGED <<mainFrame, currentUserId, storeVars, aiVars, localVars>>

\* After the extraction: the existence checks, then the scroll or the visits.
ScanHead(l, url) ==
  IF l.k <= Len(l.onScreen) THEN [l EXCEPT !.pc = "checkExists"]
  ELSE IF Len(l.newCompanies) = 0 THEN [l EXCEPT !.pc = "scroll"]
  ELSE CompanyHead([l EXCEPT !.ci = 1], url)

Extracted(l, p) ==
  ScanHead([l EXCEPT !.onScreen = CompaniesOnScreen(p.url, p.scrollY), !.k = 1,
                     !.newCompanies = << >>], p.url)

LinksPresent(p) == CompanyAnchors(p.url, p.scrollY) # << >>

\* page.reload()
Reload(p) == [p EXCEPT !.scrollY = 0]

\* waitForSelector (5 s), on timeout reload and waitForSelector (10 s), then
\* the extraction of the company links.
WaitLinks(i) ==
  /\ quit # "done"
  /\ loops[i].pc = "waitLinks"
  /\ \/ /\ LinksPresent(page)
        /\ page' = page
        /\ Step(i, Extracted(loops[i], page))
     \/ /\ faults \/ ~LinksPresent(page)
        /\ page' = Reload(page)
        /\ \/ /\ LinksPresent(page')
              /\ Step(i, Extracted(loops[i], page'))
           \/ /\ faults \/ ~LinksPresent(page')
              /\ Step(i, Fail(loops[i]))
  /\ UNCHANGED <<mainFrame, currentUserId, storeVars, aiVars, localVars>>

\* The responses a store request may get: the store's, or a failure.
StoreAnswers(resp) == IF faults THEN {resp, ServerError} ELSE {resp}

\* const exists = await api.checkCompanyExists(fullUrl); if (!exists) newCompanies.push(c)
CheckCompany(i) ==
  /\ quit # "done"
  /\ loops[i].pc = "checkExists"
  /\ LET l == loops[i]
         c == l.onScreen[l.k]
     IN  \E resp \in StoreAnswers(CompanySearch(currentUserId, GetFullUrl(c))) :
           LET exists == CheckExists(resp)
           IN  IF exists = "throw" THEN Step(i, Fail(l))
               ELSE Step(i, ScanHead(
                      [l EXCEPT !.k = @ + 1,
                                !.newCompanies =
                                   IF exists = "false" THEN Append(@, c) ELSE @,
                                !.notFound =
                                   IF exists = "false" THEN @ \cup {GetFullUrl(c)} ELSE @],
                      page.url))
  /\ UNCHANGED <<mainFrame, currentUserId, page, storeVars, aiVars, localVars>>

\* await page.mouse.wheel(0, 3000); await page.waitForTimeout(3000); continue
Scroll(i) ==
  /\ quit # "done"
  /\ loops[i].pc = "scroll"
  /\ page' = Wheel(page)
  /\ Step(i, WhileTop(loops[i], page.url))
  /\ UNCHANGED <<mainFrame, currentUserId, storeVars, aiVars, localVars>>

\* The 500 ms sleep of the company pause poll has elapsed.
CompanySleep(i) ==
  /\ quit # "done"
  /\ loops[i].pc = "companySleep"
  /\ Step(i, CompanyHead(loops[i], page.url))
  /\ UNCHANGED <<mainFrame, currentUserId, page, storeVars, aiVars, localVars>>

\* What the loop reports for a create request that threw: console.error for a
\* company or a skipped job, and an error line in the operator's log as well
\* for a submitted application.
ReportOf(op, resp) ==
  IF ~RequestThrows(resp) THEN "none"
  ELSE IF op = "submitted" THEN "log.error" ELSE "console.error"

Created(op, resp) == [op |-> op, status |-> resp.status, report |-> ReportOf(op, resp)]

\* try { await api.createCompany({ url, name, status: "visited" }) } catch { console.error }
CreateCompany(i) ==
  /\ quit # "done"
  /\ loops[i].pc = "createCompany"
  /\ LET l == loops[i]
         out == CompanyStore(companyTable, FreshId(companyTable), currentUserId,
                             [url |-> GetFullUrl(RelativeUrl(l)),
                              name |-> CompanyNameOf(RelativeUrl(l)),
                              status |-> "visited"])
     IN  \E resp \in StoreAnswers(out.response) :
           /\ companyTable' = (IF resp = out.response THEN out.table ELSE companyTable)
           /\ Step(i, [l EXCEPT !.pc = "gotoCompany",
                                !.created = Created("company", resp),
                                !.companyStatus = resp.status,
                                !.checked = (GetFullUrl(RelativeUrl(l)) \in l.notFound),
                                !.notFound = {}])
  /\ UNCHANGED <<mainFrame, currentUserId, page, aiVars, localVars>>
  /\ UNCHANGED <<applicationTable, nextId, storeReq, storeLast, storeBegun, appStoreDone>>

\* scrollAndHighlight (its failure is ignored), listScrollY = window.scrollY,
\* await page.goto(companyUrl), which is outside any inner try.
GotoCompany(i) ==
  /\ quit # "done"
  /\ loops[i].pc = "gotoCompany"
  /\ \/ /\ page' = Goto(page, GetFullUrl(RelativeUrl(loops[i])))
        /\ companyVisits' = Visited(companyVisits, RelativeUrl(loops[i]))
        /\ Step(i, [loops[i] EXCEPT !.pc = "companyLoad", !.listScrollY = page.scrollY])
     \/ /\ faults
        /\ page' = page
        /\ companyVisits' = companyVisits
        /\ Step(i, Fail(loops[i]))
  /\ UNCHANGED <<automationRunning, isPaused, userProfile, quit, faults, pageUserId,
                 stopSeen, currentUserId, storeVars, aiVars, localVars>>

\* try { waitForLoadState; waitForTimeout } catch { log; continue }, then
\* the job links of the page.
CompanyLoad(i) ==
  /\ quit # "done"
  /\ loops[i].pc = "companyLoad"
  /\ \/ Step(i, JobHead([loops[i] EXCEPT !.jobLinks = JobLinksAt(page.url), !.ji = 1]))
     \/ /\ faults
        /\ Step(i, NextCompany(loops[i], page.url))
  /\ UNCHANGED <<mainFrame, currentUserId, page, storeVars, aiVars, localVars>>

\* The 500 ms sleep of the job pause poll has elapsed.
JobSleep(i) ==
  /\ quit # "done"
  /\ loops[i].pc = "jobSleep"
  /\ Step(i, JobHead(loops[i]))
  /\ UNCHANGED <<mainFrame, currentUserId, page, storeVars, aiVars, localVars>>

\* The answers a relevance request of the loop may get from the API: the
\* gate's result for some embedding of the job text.
GateAnswers(threshold) ==
  { RelevanceOf(embedding, userProfile.embedding, threshold) :
      embedding \in EmbedOutcomes }

\* await scrollAndHighlight(page, jobLink); innerText, getAttribute; the title
\* filter.  A filtered link is passed over with continue.
JobRead(i) ==
  /\ quit # "done"
  /\ loops[i].pc = "jobRead"
  /\ \/ IF TitleFiltered(JobTitleOf(loops[i]))
        THEN Step(i, NextJob(loops[i]))
        ELSE Step(i, [loops[i] EXCEPT !.pc = "titleGate"])
     \/ /\ faults
        /\ Step(i, Fail(loops[i]))
  /\ UNCHANGED <<mainFrame, currentUserId, page, storeVars, aiVars, localVars>>

\* A title gate without the continue: every title goes on to the job page.
AfterTitleGateWithoutContinue(l, titleResult) ==
  [l EXCEPT !.titleResult = titleResult, !.pc = "gotoJob"]

\* if (!titleResult.relevant) { log; await recordSkippedJob(...); continue }
\* and otherwise on to the job page.
AfterTitleGate(l, titleResult) ==
  IF ~titleResult.relevant
  THEN [l EXCEPT !.titleResult = titleResult, !.stage = "title", !.pc = "skipCheck"]
  ELSE [l EXCEPT !.titleResult = titleResult, !.pc = "gotoJob"]

\* const titleResult = await api.aiCheckJobRelevance(jobTitle, embedding, "title"),
\* which is outside any inner try.
TitleGate(i) ==
  /\ quit # "done"
  /\ loops[i].pc = "titleGate"
  /\ \/ \E titleResult \in GateAnswers(TitleThreshold) :
          Step(i, AfterTitleGate(loops[i], titleResult))
     \/ /\ faults
        /\ Step(i, Fail(loops[i]))
  /\ UNCHANGED <<mainFrame, currentUserId, page, storeVars, aiVars, localVars>>

\* recordSkippedJob has returned: continue after the title gate, the end of
\* the try block after the description gate.
AfterSkip(l) == IF l.stage = "title" THEN NextJob(l) ELSE [l EXCEPT !.pc = "jobBack"]

\* recordSkippedJob: const exists = await api.checkApplicationExists(jobUrl);
\* if (exists) return; a failure is caught and written to the console.
SkipCheck(i) ==
  /\ quit # "done"
  /\ loops[i].pc = "skipCheck"
  /\ LET l == loops[i]
     IN  \E resp \in StoreAnswers(ApplicationSearch(currentUserId, FullJobUrl(l))) :
           LET exists == CheckExists(resp)
           IN  IF exists = "false"
               THEN Step(i, [l EXCEPT !.pc = "skipCreate",
                                      !.notFound = @ \cup {FullJobUrl(l)}])
               ELSE IF exists = "true" THEN Step(i, AfterSkip(l))
               ELSE Step(i, AfterSkip([l EXCEPT !.created = Created("lookup", resp)]))
  /\ UNCHANGED <<mainFrame, currentUserId, page, storeVars, aiVars, localVars>>

\* `${score}` of a template literal
ScoreText(result) == IF result.scoreNaN THEN "NaN" ELSE ToString(result.score)

\* `Title mismatch (Score: ${titleResult.score})` and
\* `Description mismatch (Score: ${fitResult.score})`
ReasonOf(stage, result) ==
  (IF stage = "title" THEN "Title mismatch" ELSE "Description mismatch")
    \o " (Score: " \o ScoreText(result) \o ")"

\* A skipped record that keeps neither the score nor the reason's score.
SkippedDataWithoutScore(l) ==
  [jobUrl |-> FullJobUrl(l),
   coverLetter |-> IF l.stage = "title" THEN "Title mismatch" ELSE "Description mismatch",
   status |-> "skipped",
   matchScore |-> -1]

\* The reason and the score recordSkippedJob is called with and stores.  (A
\* score that is not a number does not occur here: the embeddings of the job
\* texts have the dimension of the profile vector.)
SkippedData(l) ==
  LET result == IF l.stage = "title" THEN l.titleResult ELSE l.fitResult
  IN  [jobUrl |-> FullJobUrl(l),
       coverLetter |-> ReasonOf(l.stage, result),
       status |-> "skipped",
       matchScore |-> result.score]

\* recordSkippedJob: await api.createApplication({..., status: "skipped"})
SkipCreate(i) ==
  /\ quit # "done"
  /\ loops[i].pc = "skipCreate"
  /\ LET l == loops[i]
         out == ApplicationStore(applicationTable, FreshId(applicationTable), currentUserId, SkippedData(l))
     IN  \E resp \in StoreAnswers(out.response) :
           /\ applicationTable' =
                (IF resp = out.response THEN out.table ELSE applicationTable)
           /\ Step(i, AfterSkip([l EXCEPT !.created = Created("skipped", resp),
                                          !.job.sent = "skipped",
                                          !.checked = (FullJobUrl(l) \in l.notFound),
                                          !.notFound = {}]))
  /\ UNCHANGED <<mainFrame, currentUserId, page, aiVars, localVars>>
  /\ UNCHANGED <<companyTable, nextId, storeReq, storeLast, storeBegun, appStoreDone>>

\* companyScrollY = window.scrollY; await page.goto(fullJobUrl), which is
\* outside the inner try.
GotoJob(i) ==
  /\ quit # "done"
  /\ loops[i].pc = "gotoJob"
  /\ \/ /\ page' = Goto(page, FullJobUrl(loops[i]))
        /\ Step(i, [loops[i] EXCEPT !.pc = "jobPage", !.companyScrollY = page.scrollY])
     \/ /\ faults
        /\ page' = page
        /\ Step(i, Fail(loops[i]))
  /\ UNCHANGED <<mainFrame, currentUserId, storeVars, aiVars, localVars>>

\* An "Applied" marker that is seen and not acted on.
AfterAppliedCheckIgnored(l, applied) ==
  [l EXCEPT !.pc = "descGate", !.job.applied = applied]

\* if ((await appliedBtn.count()) > 0) { log("Already applied, skipping.") }
\* else { the description text and the description gate }
AfterAppliedCheck(l, applied) ==
  [l EXCEPT !.pc = IF applied THEN "jobBack" ELSE "descGate", !.job.applied = applied]

\* Inside the inner try: the "Applied" marker, then the description text.
\* An error of the inner try is logged and the loop goes back.
JobPage(i) ==
  /\ quit # "done"
  /\ loops[i].pc = "jobPage"
  /\ \/ \E applied \in BOOLEAN : Step(i, AfterAppliedCheck(loops[i], applied))
     \/ /\ faults
        /\ Step(i, [loops[i] EXCEPT !.pc = "jobBack"])
  /\ UNCHANGED <<mainFrame, currentUserId, page, storeVars, aiVars, localVars>>

\* if (!fitResult.relevant) { log; await recordSkippedJob(...) } else the form.
AfterDescriptionGate(l, fitResult) ==
  IF ~fitResult.relevant
  THEN [l EXCEPT !.fitResult = fitResult, !.stage = "description", !.pc = "skipCheck"]
  ELSE [l EXCEPT !.fitResult = fitResult, !.pc = "applyForm"]

\* const fitResult = await api.aiCheckJobRelevance(text, embedding, "description")
DescriptionGate(i) ==
  /\ quit # "done"
  /\ loops[i].pc = "descGate"
  /\ \/ \E fitResult \in GateAnswers(DescriptionThreshold) :
          Step(i, AfterDescriptionGate(loops[i], fitResult))
     \/ /\ faults
        /\ Step(i, [loops[i] EXCEPT !.pc = "jobBack"])
  /\ UNCHANGED <<mainFrame, currentUserId, page, storeVars, aiVars, localVars>>

\* The Apply button is clicked if visible; without a visible textarea nothing
\* more is done for the job.
ApplyForm(i) ==
  /\ quit # "done"
  /\ loops[i].pc = "applyForm"
  /\ \/ \E textAreaVisible \in BOOLEAN :
          Step(i, [loops[i] EXCEPT !.pc = IF textAreaVisible THEN "generate" ELSE "jobBack"])
     \/ /\ faults
        /\ Step(i, [loops[i] EXCEPT !.pc = "jobBack"])
  /\ UNCHANGED <<mainFrame, currentUserId, page, storeVars, aiVars, localVars>>

\* The catch of AiService.generateApplication: the generic paragraph
FallbackLetter ==
  "Hi! I'm interested in this role. Based on my experience and skills, I believe I would be a great fit for your team."

\* response.message.content.trim() || "<this sentence>"
DefaultLetter ==
  "Hi! I am interested in this role and believe my skills would be a great fit for your team."

\* How ollama.chat may end: content (trimmed), blank content, or an exception.
ChatContent == [kind |-> "content", threw |-> FALSE, content |-> "generated"]
ChatBlank == [kind |-> "blank", threw |-> FALSE, content |-> ""]
ChatThrows == [kind |-> "throws", threw |-> TRUE, content |-> ""]

ChatOutcomes == IF faults THEN {ChatContent, ChatBlank, ChatThrows} ELSE {ChatContent}

\* A generation without the fallback: a failed chat call yields no text.
GenerateApplicationWithoutFallback(chat) == chat.content

\* AiService.generateApplication, which AiController.generateApplication
\* returns as { coverLetter }.
GenerateApplication(chat) ==
  IF chat.threw THEN FallbackLetter
  ELSE IF chat.content = "" THEN DefaultLetter
  ELSE chat.content

\* const { coverLetter } = await api.aiGenerateApplication(text, userProfile.text):
\* the request is answered with the letter of AiService.generateApplication,
\* or fails (the inner catch logs the error and the loop goes back).
Generate(i) ==
  /\ quit # "done"
  /\ loops[i].pc = "generate"
  /\ \/ \E chat \in ChatOutcomes :
          Step(i, [loops[i] EXCEPT !.pc = "typing",
                                   !.coverLetter = GenerateApplication(chat),
                                   !.job.chat = chat.kind])
     \/ /\ faults
        /\ Step(i, [loops[i] EXCEPT !.pc = "jobBack"])
  /\ UNCHANGED <<mainFrame, currentUserId, page, storeVars, aiVars, localVars>>

\* await textArea.pressSequentially(coverLetter, ...)
Typing(i) ==
  /\ quit # "done"
  /\ loops[i].pc = "typing"
  /\ \/ Step(i, [loops[i] EXCEPT !.pc = "createApplication", !.job.typed = TRUE])
     \/ /\ faults
        /\ Step(i, [loops[i] EXCEPT !.pc = "jobBack"])
  /\ UNCHANGED <<mainFrame, currentUserId, page, storeVars, aiVars, localVars>>

SubmittedData(l) ==
  [jobUrl |-> FullJobUrl(l), coverLetter |-> l.coverLetter, status |-> "submitted",
   matchScore |-> l.fitResult.score]

\* try { await api.createApplication({..., status: "submitted"}); log success }
\* catch (e) { console.error; log("Failed to save application to DB", error) }
CreateApplication(i) ==
  /\ quit # "done"
  /\ loops[i].pc = "createApplication"
  /\ LET l == loops[i]
         out == ApplicationStore(applicationTable, FreshId(applicationTable), currentUserId, SubmittedData(l))
     IN  \E resp \in StoreAnswers(out.response) :
           /\ applicationTable' =
                (IF resp = out.response THEN out.table ELSE applicationTable)
           /\ Step(i, [l EXCEPT !.pc = "jobBack", !.created = Created("submitted", resp),
                                !.job.sent = "submitted",
                                !.checked = (FullJobUrl(l) \in l.notFound),
                                !.notFound = {}])
  /\ UNCHANGED <<mainFrame, currentUserId, page, aiVars, localVars>>
  /\ UNCHANGED <<companyTable, nextId, storeReq, storeLast, storeBegun, appStoreDone>>

\* await page.goBack(); waitForTimeout; window.scrollTo(0, companyScrollY)
JobBack(i) ==
  /\ quit # "done"
  /\ loops[i].pc = "jobBack"
  /\ \/ /\ page' = ScrollTo(GoBack(page), loops[i].companyScrollY)
        /\ Step(i, NextJob(loops[i]))
     \/ /\ faults
        /\ page' = page
        /\ Step(i, Fail(loops[i]))
  /\ UNCHANGED <<mainFrame, currentUserId, storeVars, aiVars, localVars>>

\* await page.goBack(); try { waitForSelector (3 s); scrollTo(0, listScrollY) }
\* catch { await page.goto(list); waitForLoadState }, then the next company.
ListBack(i) ==
  /\ quit # "done"
  /\ loops[i].pc = "listBack"
  /\ LET landed == GoBack(page)
     IN  \/ /\ LinksPresent(landed)
            /\ page' = ScrollTo(landed, loops[i].listScrollY)
            /\ Step(i, NextCompany(loops[i], page'.url))
         \/ /\ faults \/ ~LinksPresent(landed)
            /\ page' = Goto(landed, ListUrl)
            /\ Step(i, NextCompany(loops[i], page'.url))
         \/ /\ faults
            /\ page' = landed
            /\ Step(i, Fail(loops[i]))
  /\ UNCHANGED <<mainFrame, currentUserId, storeVars, aiVars, localVars>>

(***************************************************************************)
(* The desktop application as a whole.                                     *)
(***************************************************************************)
MainInit ==
  /\ automationRunning = FALSE
  /\ isPaused = FALSE
  /\ userProfile \in {NoProfile, TheProfile}
  /\ currentUserId = NoUser
  /\ quit = "no"
  /\ faults \in BOOLEAN
  /\ pageUserId \in {NoUser, "u1"}
  /\ page \in { [url |-> u, back |-> << >>, scrollY |-> 0] :
                  u \in IF faults THEN {ListUrl, Elsewhere} ELSE {ListUrl} }
  /\ loops = [i \in Loops |-> IdleLoop]
  /\ stopSeen = FALSE
  /\ stepsAfterRestart = 0
  /\ companyVisits = [once |-> {}, again |-> {}]

LoopStep(i) ==
  \/ Connect(i) \/ OuterSleep(i) \/ ListGoto(i) \/ WaitLinks(i) \/ CheckCompany(i)
  \/ Scroll(i) \/ CompanySleep(i) \/ CreateCompany(i) \/ GotoCompany(i)
  \/ CompanyLoad(i) \/ JobSleep(i) \/ JobRead(i) \/ TitleGate(i) \/ SkipCheck(i)
  \/ SkipCreate(i) \/ GotoJob(i) \/ JobPage(i) \/ DescriptionGate(i) \/ ApplyForm(i)
  \/ Generate(i) \/ Typing(i) \/ CreateApplication(i) \/ JobBack(i) \/ ListBack(i)

MainNext ==
  \/ \E i \in Loops : Start(i) \/ LoopStep(i)
  \/ Stop \/ Quit \/ Pause \/ Resume \/ SaveResume

(***************************************************************************)
(* The local classifier of the first desktop main process (SpecLocal):     *)
(* isJobTitleRelevant of src/main/ollama.ts and its in-process cache.  One *)
(* call is in flight at a time, as the traversal loop awaits each; the     *)
(* save-resume handler may replace the profile at any moment.              *)
(***************************************************************************)
\* const MAX_CACHE_SIZE = 100
MAX_CACHE_SIZE == 100

\* const TITLE_THRESHOLD = 0.45
TITLE_THRESHOLD == 45

\* Runs of the save-resume handler in one behaviour of SpecLocal.
MaxProfileChanges == 1

\* The job titles of one behaviour: enough to fill the cache and go past it.
LastTitle == MAX_CACHE_SIZE + 2

Digit(d) == << "0", "1", "2", "3", "4", "5", "6", "7", "8", "9" >>[d + 1]

\* The text of the n-th job title the listings show, as the loop passes it:
\* trimmed and at least five characters long.
TitleText(n) ==
  << "j", "o", "b", Digit(n \div 100), Digit((n \div 10) % 10), Digit(n % 10) >>

\* The answer of the embedding model for a title: the same text always gets
\* the same vector.  Two titles in ten lie closer to one profile than to the
\* other; the rest are as close to both.
TitleEmbedding(jobTitle) ==
  LET last == jobTitle[Len(jobTitle)]
  IN  IF last = "1" THEN << 3, 4 >>
      ELSE IF last = "2" THEN << 4, -3 >>
      ELSE << 1, 1 >>

\* The vectors the save-resume handler stores as userProfile.embedding: the
\* embedding of the persona, or [] when the embedding call failed.
ProfileEmbeddings == { << 1, 0 >>, << 0, 1 >>, << >> }

\* ollama.ts cosineSimilarity
cosineSimilarity(vecA, vecB) ==
  LET magSqA == SumSquares(vecA)
      magSqB == SumSquares(vecB)
  IN  IF magSqA = 0 \/ magSqB = 0 THEN ZeroSimilarity
      ELSE IF DotIsNaN(vecA, vecB) THEN NaNSimilarity
      ELSE [nan |-> FALSE, dot |-> DotFrom(vecA, vecB, 1), msq |-> magSqA * magSqB]

\* { relevant: true, score: -1 }
TitleFailOpen == GateResult(TRUE, -1, FALSE)

\* isJobTitleRelevant after the await: the guard on empty vectors, the
\* similarity, the threshold and the rounded score.
TitleVerdict(titleEmbedding, userProfileEmbedding) ==
  IF Len(titleEmbedding) = 0 \/ Len(userProfileEmbedding) = 0 THEN TitleFailOpen
  ELSE LET similarity == cosineSimilarity(titleEmbedding, userProfileEmbedding)
       IN  IF similarity.nan THEN GateResult(FALSE, 0, TRUE)
           ELSE GateResult(SimilarityAtLeast(similarity, TITLE_THRESHOLD),
                           RoundTimes100(similarity), FALSE)

\* const cacheKey = `${jobTitle.trim()}|${userProfileEmbedding.length}`
CacheKey(jobTitle, userProfileEmbedding) == << Trim(jobTitle), Len(userProfileEmbedding) >>

\* jobTitleCache.has(cacheKey)
TitleCacheHas(cache, cacheKey) == \E k \in 1..Len(cache) : cache[k].key = cacheKey

\* jobTitleCache.get(cacheKey)
TitleCacheGet(cache, cacheKey) ==
  cache[CHOOSE k \in 1..Len(cache) : cache[k].key = cacheKey].value

\* jobTitleCache.set(cacheKey, result): a key the Map holds keeps its place.
TitleCacheSet(cache, cacheKey, result) ==
  IF TitleCacheHas(cache, cacheKey)
  THEN [k \in 1..Len(cache) |->
          IF cache[k].key = cacheKey THEN [key |-> cacheKey, value |-> result]
          ELSE cache[k]]
  ELSE Append(cache, [key |-> cacheKey, value |-> result])

\* A cache update that deletes nothing.
NothingEvicted(cache) == cache

\* if (jobTitleCache.size >= MAX_CACHE_SIZE) delete the first key of the Map
EvictOldest(cache) == IF Len(cache) >= MAX_CACHE_SIZE THEN Tail(cache) ELSE cache

IdleCall == [pc |-> "idle", jobTitle |-> << >>, userProfileEmbedding |-> << >>]
NoTitleLast == [jobTitle |-> << >>, userProfileEmbedding |-> << >>, result |-> NoResult]

\* The titles a call may carry: the next title never seen, or the title of
\* the oldest entry of the cache.
CallTitles ==
  (IF titlesStored < LastTitle THEN { TitleText(titlesStored + 1) } ELSE {})
    \cup (IF jobTitleCache # << >> THEN { jobTitleCache[1].key[1] } ELSE {})

\* isJobTitleRelevant up to its await: a cached verdict is returned at once,
\* otherwise getEmbedding(jobTitle) is called.
TitleBegin ==
  /\ titleCall.pc = "idle"
  /\ \E jobTitle \in CallTitles :
       LET cacheKey == CacheKey(jobTitle, profileEmbedding)
       IN  IF TitleCacheHas(jobTitleCache, cacheKey)
           THEN /\ titleLast' = [jobTitle |-> jobTitle,
                                 userProfileEmbedding |-> profileEmbedding,
                                 result |-> TitleCacheGet(jobTitleCache, cacheKey)]
                /\ UNCHANGED titleCall
           ELSE /\ titleCall' = [pc |-> "embed", jobTitle |-> jobTitle,
                                 userProfileEmbedding |-> profileEmbedding]
                /\ UNCHANGED titleLast
  /\ UNCHANGED <<jobTitleCache, profileEmbedding, titlesStored, profileChanges>>
  /\ UNCHANGED <<aiVars, storeVars, mainVars>>

\* getEmbedding has returned, with the title's vector or with [] after an
\* error: the fail-open verdict is returned without a cache update, any other
\* verdict is stored and returned.
TitleFinish ==
  /\ titleCall.pc = "embed"
  /\ \E titleEmbedding \in { TitleEmbedding(titleCall.jobTitle), << >> } :
       LET userProfileEmbedding == titleCall.userProfileEmbedding
           result == TitleVerdict(titleEmbedding, userProfileEmbedding)
           cacheKey == CacheKey(titleCall.jobTitle, userProfileEmbedding)
       IN  /\ titleLast' = [jobTitle |-> titleCall.jobTitle,
                            userProfileEmbedding |-> userProfileEmbedding,
                            result |-> result]
           /\ IF Len(titleEmbedding) = 0 \/ Len(userProfileEmbedding) = 0
              THEN UNCHANGED <<jobTitleCache, titlesStored>>
              ELSE /\ jobTitleCache' =
                        TitleCacheSet(EvictOldest(jobTitleCache), cacheKey, result)
                   /\ titlesStored' = titlesStored + 1
  /\ titleCall' = IdleCall
  /\ UNCHANGED <<profileEmbedding, profileChanges>>
  /\ UNCHANGED <<aiVars, storeVars, mainVars>>

\* ipcMain.handle("save-resume"): userProfile is replaced by a new object
\* whose embedding is that of the new persona.
ReplaceProfile ==
  /\ profileChanges < MaxProfileChanges
  /\ \E embedding \in ProfileEmbeddings \ { profileEmbedding } :
       profileEmbedding' = embedding
  /\ profileChanges' = profileChanges + 1
  /\ UNCHANGED <<jobTitleCache, titleCall, titleLast, titlesStored>>
  /\ UNCHANGED <<aiVars, storeVars, mainVars>>

LocalInit ==
  /\ jobTitleCache = << >>
  /\ profileEmbedding = << 1, 0 >>
  /\ titleCall = IdleCall
  /\ titleLast = NoTitleLast
  /\ titlesStored = 0
  /\ profileChanges = 0

LocalNext == TitleBegin \/ TitleFinish \/ ReplaceProfile

(***************************************************************************)
(* Specifications.                                                         *)
(***************************************************************************)
vars == <<aiVars, storeVars, mainVars, localVars>>

\* The desktop application at rest, as the API server's specifications see it.
MainAtRest ==
  /\ MainInit
  /\ ~faults
  /\ ~userProfile.loaded
  /\ pageUserId = NoUser

\* AiService under concurrent gate requests.
InitAi ==
  /\ AiInit
  /\ StoreInit
  /\ MainAtRest
  /\ LocalInit

SpecAi == InitAi /\ [][AiNext]_vars

\* The store controllers under concurrent requests.
InitStore ==
  /\ StoreInit
  /\ AiInit
  /\ MainAtRest
  /\ LocalInit

SpecStore == InitStore /\ [][StoreNext]_vars

\* The desktop main process against the API server.
Init ==
  /\ MainInit
  /\ StoreInit
  /\ AiInit
  /\ LocalInit

Next == MainNext

Spec == Init /\ [][Next]_vars

\* The local title gate of the first desktop main process.
InitLocal ==
  /\ LocalInit
  /\ StoreInit
  /\ AiInit
  /\ MainAtRest

SpecLocal == InitLocal /\ [][LocalNext]_vars

(***************************************************************************)
(* Properties.                                                             *)
(***************************************************************************)
\* C1: for both relevance gates, whenever the embedding obtained for the job
\* text is empty or the profile vector is empty, the gate returns exactly
\* { relevant: true, score: -1 }: it does not throw and does not answer
\* relevant = false.
GateFailsOpen ==
  (aiLast.kind \in GateKinds /\ (Len(aiLast.embedding) = 0 \/ Len(aiLast.profile) = 0))
    => (aiLast.result = FailOpen /\ ~aiLast.threw)

\* The description gate has answered a request whose embedding came back empty
\* from an embedding call, against a profile vector that is not empty.
GateFailsOpenWitness ==
  /\ aiLast.kind = "description"
  /\ aiLast.embedding = << >>
  /\ aiLast.profile # << >>
  /\ aiLast.result = FailOpen
  /\ \E n \in Norms : embedCalls[n] > 0

\* C2: for every interleaving of create-application requests that carry the
\* same (user id, jobUrl), at most one Application row of that key is in the
\* store, and exactly one once such a request has been answered.
OneApplicationPerKey ==
  \A userId \in StoreUsers, jobUrl \in StoreUrls :
    LET rows == ApplicationRows(applicationTable, userId, jobUrl)
    IN  /\ Cardinality(rows) <= 1
        /\ <<userId, jobUrl>> \in appStoreDone => Cardinality(rows) = 1

\* Two create-application requests of one key both passed the existence
\* pre-check; the second insert was rejected by the unique index.
OneApplicationPerKeyWitness ==
  /\ storeLast.op = "application.store"
  /\ storeLast.status = 500
  /\ Cardinality(ApplicationRows(applicationTable, storeLast.userId, storeLast.key)) = 1

\* Positions of the loop on or after the job's detail page.
JobPagePcs ==
  {"gotoJob", "jobPage", "descGate", "applyForm", "generate", "typing",
   "createApplication", "jobBack"}

\* C3: a job whose title gate answered relevant = false never reaches the
\* job's detail page, the description gate or the cover-letter generation:
\* the loop is at those positions only with a relevant title, and records a
\* description mismatch only for a relevant title.
TitleGateShortCircuits ==
  \A i \in Loops :
    /\ loops[i].pc \in JobPagePcs => loops[i].titleResult.relevant
    /\ loops[i].stage = "description" => loops[i].titleResult.relevant

\* A job was skipped for its title, recorded as skipped, and the loop is at
\* the next job link of the company page.
TitleGateShortCircuitsWitness ==
  \E i \in Loops :
    /\ loops[i].pc = "jobRead"
    /\ loops[i].ji = 2
    /\ loops[i].created.op = "skipped"
    /\ loops[i].created.status = 201
    /\ \E row \in applicationTable : row.coverLetter = "Title mismatch (Score: 0)"

\* C4: a loop that a stop signal found waiting in a pause poll leaves the run
\* at its next poll: from then on it only sleeps, returns to the list or has
\* ended, so it processes no further company or job and issues no create
\* request.
StopWhilePausedLeavesRun ==
  \A i \in Loops :
    loops[i].stoppedPaused =>
      loops[i].pc \in SleepPcs \cup {"listBack", "ended"}

\* C5: stop is terminal: once a stop signal has been delivered the run is
\* never set running again, and no loop is at work on a company or job.
StopIsTerminal == stopSeen => ~automationRunning

\* C6: at most one traversal loop drives the page at any time.
SingleActiveLoop == Cardinality({ i \in Loops : Active(i) }) <= 1

\* C7: a job link whose trimmed text is shorter than 5 characters or is a
\* generic action word (view, apply, see, open), alone or leading the title,
\* never reaches the title gate: no AI request is made for it.
ActionTitlesFiltered ==
  \A i \in Loops :
    loops[i].pc = "titleGate" =>
      LET jobTitle == JobTitleOf(loops[i])
      IN  /\ Len(jobTitle) >= 5
          /\ ~\E word \in ActionWords :
                /\ StartsWithWord(jobTitle, word)
                /\ (Len(jobTitle) = Len(word) \/ jobTitle[Len(word) + 1] \in WhiteSpace)

ConflictIsSuccess ==
  \A i \in Loops : loops[i].created.status = 409 => loops[i].created.report = "none"

\* C10: when no user id is found at start and nothing else fails, the run is
\* not aborted: no invocation ends in the handler's outer catch.
RunSurvivesMissingUserId ==
  (~faults /\ currentUserId = NoUser) => \A i \in Loops : loops[i].exit # "error"

\* Positions of the loop while it processes one job link.
JobStepPcs ==
  {"jobRead", "titleGate", "skipCheck", "skipCreate", "gotoJob", "jobPage", "descGate",
   "applyForm", "generate", "typing", "createApplication", "jobBack"}

\* C11: an exception raised at any step of processing one job link is
\* contained to that job: no invocation ends in the handler's outer catch from
\* a step of the job loop.
JobFailureIsContained == \A i \in Loops : loops[i].failedAt \notin JobStepPcs

\* C12: a navigation to a company page that fails or times out skips the
\* company: it never ends the run.
CompanyNavigationFailureSkips == \A i \in Loops : loops[i].failedAt # "gotoCompany"

\* C13: with a user id set, no failure of the listing stage (navigating to
\* the list, waiting for company links with one reload, the existence checks)
\* ends the run.
ListingFailureIsContained ==
  currentUserId # NoUser =>
    \A i \in Loops : loops[i].failedAt \notin {"listGoto", "waitLinks", "checkExists"}

\* C14: in a listing scan, a company link whose absolute URL has a Company
\* record of the current user when it is checked is not placed in
\* newCompanies.
ScanExcludesRecorded ==
  [][\A i \in Loops :
       (/\ loops[i].pc = "checkExists"
        /\ currentUserId # NoUser
        /\ CompanyKeyTaken(companyTable, currentUserId,
                           GetFullUrl(loops[i].onScreen[loops[i].k])))
         => \A j \in DOMAIN loops'[i].newCompanies :
              loops'[i].newCompanies[j] # loops[i].onScreen[loops[i].k]]_vars

\* A scan found the only company on screen recorded, kept newCompanies empty
\* and went on to scroll.
ScanExcludesRecordedWitness ==
  \E i \in Loops :
    /\ loops[i].pc = "scroll"
    /\ loops[i].onScreen = << CompanyA >>
    /\ loops[i].newCompanies = << >>
    /\ CompanyKeyTaken(companyTable, currentUserId, GetFullUrl(CompanyA))

\* Positions of the loop during the visit of a company, from the navigation
\* to its page to the return to the list.
VisitPcs == JobStepPcs \cup {"gotoCompany", "companyLoad", "jobSleep", "listBack"}

\* C15: the create-company request is answered before the navigation to the
\* company's page, and unless it was rejected the record of (user, url) is in
\* the store throughout the visit, so that a later scan finds it.
CompanyRecordedBeforeVisit ==
  \A i \in Loops :
    loops[i].pc \in VisitPcs =>
      /\ loops[i].companyStatus # 0
      /\ loops[i].companyStatus \in {201, 409} =>
            CompanyKeyTaken(companyTable, currentUserId, GetFullUrl(RelativeUrl(loops[i])))

\* A run was stopped during the visit of a company before any job was
\* recorded; the scan of the following run finds the company's record and
\* does not visit it again.
CompanyRecordedBeforeVisitWitness ==
  /\ loops[1].exit = "stopped"
  /\ loops[2].pc = "scroll"
  /\ loops[2].onScreen = << CompanyA >>
  /\ loops[2].newCompanies = << >>
  /\ applicationTable = {}
  /\ companyVisits = [once |-> {CompanyA}, again |-> {}]

\* C16: in a run of one invocation, each company page is navigated to at
\* most once, whatever the outcome of its create-company request.
CompanyVisitedOnce == stepsAfterRestart = 0 => companyVisits.again = {}

\* C20: a start without a profile, or whose browser attach or page lookup
\* fails, is aborted before the loop and its failure message is passed to the
\* operator's log.
SetupFailureIsSurfaced ==
  \A i \in Loops :
    (loops[i].exit = "no-profile" \/ loops[i].failedAt = "connect") => loops[i].surfaced

\* C17: a company list answered to user U holds exactly the Company rows
\* created under U: no row of another user, and every row of U.
CompanyListIsOwn ==
  storeLast.op = "company.index" =>
    storeLast.rows = { row \in companyTable : row.userId = storeLast.userId }

\* A user with a company was answered a list while another user has a company
\* too.
CompanyListIsOwnWitness ==
  /\ storeLast.op = "company.index"
  /\ storeLast.rows # {}
  /\ \E row \in companyTable : row.userId # storeLast.userId

\* C18: company uniqueness is per user: a create-company request of a user
\* who has no row of the url passes the pre-check and is answered 201 with a
\* row of a fresh id, whatever rows other users have of that url, and the
\* rows of the others stay.
CompanyKeyIsPerUser ==
  [][\A r \in StoreSlots :
       (/\ storeReq[r].op = "company.store"
        /\ storeReq'[r] # storeReq[r]
        /\ CompanyRows(companyTable, storeReq[r].userId, storeReq[r].key) = {})
         => IF storeReq[r].pc = "find" THEN storeReq'[r].pc = "create"
            ELSE /\ storeLast'.status = 201
                 /\ companyTable \subseteq companyTable'
                 /\ \E row \in companyTable' \ companyTable :
                      /\ row.userId = storeReq[r].userId
                      /\ row.url = storeReq[r].key
                      /\ \A old \in companyTable : old.id # row.id]_vars

\* Two users each have a company of the same url, under different ids, the
\* second just created.
CompanyKeyIsPerUserWitness ==
  /\ storeLast.op = "company.store"
  /\ storeLast.status = 201
  /\ \E a \in companyTable, b \in companyTable :
       a.url = b.url /\ a.userId # b.userId /\ a.id # b.id /\ b \in storeLast.rows

\* C19: the store holds at most one Company row per (user id, url), and a
\* create-company request whose pre-check finds the key is answered 409 and
\* leaves both tables unchanged.
OneCompanyPerKey ==
  /\ [](\A userId \in StoreUsers, url \in StoreUrls :
          Cardinality(CompanyRows(companyTable, userId, url)) <= 1)
  /\ [][\A r \in StoreSlots :
          (/\ storeReq[r].op = "company.store"
           /\ storeReq[r].pc = "find"
           /\ storeReq'[r] # storeReq[r]
           /\ CompanyRows(companyTable, storeReq[r].userId, storeReq[r].key) # {})
            => /\ storeLast'.status = 409
               /\ storeLast'.rows =
                    CompanyRows(companyTable, storeReq[r].userId, storeReq[r].key)
               /\ companyTable' = companyTable
               /\ applicationTable' = applicationTable]_vars

\* A create-company request for a key that exists was answered 409 with the
\* one existing row.
OneCompanyPerKeyWitness ==
  /\ storeLast.op = "company.store"
  /\ storeLast.status = 409
  /\ Cardinality(storeLast.rows) = 1
  /\ storeLast.rows \subseteq companyTable

\* C22 (as stated): the score a relevance gate returns is an integer of
\* 0..100, or the -1 of the fail-open case, and never not-a-number.
ScoreIsPercentOrSentinel ==
  aiLast.kind \in GateKinds =>
    (~aiLast.result.scoreNaN /\ aiLast.result.score \in -1..100)

\* x * sqrt(m) <= y over the integers, for m > 0.
LeqRoot(x, y, m) ==
  IF x <= 0 THEN (y >= 0 \/ x * x * m >= y * y)
  ELSE (y > 0 /\ x * x * m <= y * y)

\* C23: when the embedding and the profile vector are both non-empty, a gate
\* answers relevant = true exactly when the cosine similarity is at least its
\* threshold of 0.45 (equality included), and score = round(similarity * 100):
\* similarity 0.6 gives { relevant: true, score: 60 }.  A similarity that is
\* not a number is below every threshold and rounds to not-a-number.
GateDecidesByThreshold ==
  (aiLast.kind \in GateKinds /\ aiLast.embedding # << >> /\ aiLast.profile # << >>) =>
    LET a == aiLast.embedding
        b == aiLast.profile
        m == SumSquares(a) * SumSquares(b)
        dot == DotFrom(a, b, 1)
        result == aiLast.result
    IN  IF m = 0 THEN result = GateResult(FALSE, 0, FALSE)
        ELSE IF Len(a) > Len(b) THEN (~result.relevant /\ result.scoreNaN)
        ELSE /\ ~result.scoreNaN
             /\ result.relevant <=> LeqRoot(45, 100 * dot, m)
             /\ LeqRoot(2 * result.score - 1, 200 * dot, m)
             /\ ~LeqRoot(2 * result.score + 1, 200 * dot, m)
             /\ (a = <<3, 4>> /\ b = <<1, 0>>) => result = GateResult(TRUE, 60, FALSE)
             /\ (a = <<3, 4>> /\ b = <<-1, 3, 2, 1, 1>>)
                  => result = GateResult(TRUE, 45, FALSE)

\* The title gate has answered for an embedding at cosine 0.6 of the profile
\* vector: relevant, with score 60.
GateDecidesByThresholdWitness ==
  /\ aiLast.kind = "title"
  /\ aiLast.embedding = <<3, 4>>
  /\ aiLast.profile = <<1, 0>>
  /\ aiLast.result = GateResult(TRUE, 60, FALSE)

\* C24: text normalization is idempotent, so a text and its normalized form
\* map to the same cache key: for every text a request carries and every text
\* the cache holds, normalize(normalize(x)) = normalize(x), and every cache row
\* is stored under the key of its own normalized text.
NormalizeIsIdempotent ==
  /\ \A text \in Texts \cup { aiReq[r].text : r \in AiSlots }
                       \cup { row.normalizedText : row \in embeddingCache } :
       LET once == NormalizeEmbeddingText(text)
       IN  /\ NormalizeEmbeddingText(once) = once
           /\ GetEmbeddingHash(NormalizeEmbeddingText(once)) = GetEmbeddingHash(once)
  /\ \A row \in embeddingCache :
       row.textHash = GetEmbeddingHash(NormalizeEmbeddingText(row.normalizedText))

\* A request whose text differs from its normalized form found the row of its
\* normalized form in the cache.
NormalizeIsIdempotentWitness ==
  \E r \in AiSlots :
    /\ aiReq[r].pc = "lookup"
    /\ aiReq[r].text # NormalizeEmbeddingText(aiReq[r].text)
    /\ aiReq[r].begunCached
    /\ \E row \in embeddingCache :
         row.normalizedText = NormalizeEmbeddingText(aiReq[r].text)

NoHeaderIsUnauthorized ==
  /\ [](/\ (storeLast.op # "none" /\ storeLast.userId = NoUser) =>
             /\ storeLast.rows = {}
             /\ storeLast.status =
                  (IF storeLast.op \in {"company.index", "application.index"}
                   THEN 200 ELSE 401)
        /\ \A row \in companyTable : row.userId # NoUser
        /\ \A row \in applicationTable : row.userId # NoUser)
  /\ [][(\/ (storeLast' # storeLast /\ storeLast'.userId = NoUser)
         \/ \E r \in StoreSlots :
              /\ storeReq[r].pc # "idle"
              /\ storeReq[r].userId = NoUser
              /\ storeReq'[r].pc = "idle")
          => UNCHANGED <<companyTable, applicationTable, nextId>>]_vars

\* A find request without the header was answered 401 although a company of
\* that url is recorded for a user.
NoHeaderIsUnauthorizedWitness ==
  /\ storeLast.op = "company.find"
  /\ storeLast.userId = NoUser
  /\ storeLast.status = 401
  /\ \E row \in companyTable : row.url = storeLast.key

\* C21: when the chat call of the cover-letter generation fails for a job that
\* passed both gates, the job's processing goes on: the generic paragraph is
\* the cover letter, the loop goes on to type it, the create request carries
\* it, and the submitted record the store accepts holds it; the run ends after
\* such a job only when the page.goBack() that follows the job fails.
GenerationFailureFallsBack ==
  /\ [](\A i \in Loops :
          LET l == loops[i]
          IN  l.job.chat = "throws" =>
                /\ l.titleResult.relevant /\ l.fitResult.relevant
                /\ l.coverLetter = FallbackLetter
                /\ \/ l.pc \in {"typing", "createApplication", "jobBack"}
                   \/ l.pc = "ended" /\ l.failedAt = "jobBack"
                /\ l.pc = "createApplication" =>
                     (l.job.typed /\ SubmittedData(l).coverLetter = FallbackLetter)
                /\ (l.job.sent = "submitted" /\ l.created.status = 201) =>
                     \E row \in applicationTable :
                       /\ row.userId = currentUserId
                       /\ row.jobUrl = FullJobUrl(l)
                       /\ row.status = "submitted"
                       /\ row.coverLetter = FallbackLetter)
  /\ [][\A i \in Loops :
          (loops[i].pc = "generate" /\ loops'[i].job.chat = "throws")
            => loops'[i].pc = "typing"]_vars

\* The chat call failed, the generic paragraph was typed and the store holds
\* the submitted record with that text.
GenerationFailureFallsBackWitness ==
  \E i \in Loops :
    /\ loops[i].pc = "jobBack"
    /\ loops[i].job = [applied |-> FALSE, chat |-> "throws", typed |-> TRUE,
                       sent |-> "submitted"]
    /\ loops[i].created.status = 201
    /\ \E row \in applicationTable :
         row.status = "submitted" /\ row.coverLetter = FallbackLetter

\* C27 (as stated): every create request of the loop (company, skipped
\* application, submitted application) is preceded, for the same key and with
\* no other write of the loop in between, by a find request answered not-found.
EveryCreateIsChecked ==
  \A i \in Loops :
    loops[i].created.op \in {"company", "skipped", "submitted"} => loops[i].checked

\* C28 (as stated): a job that passed both gates and is not marked as applied
\* ends, when nothing fails, with a create request of status submitted that
\* carries the generated cover letter and the stage-2 score, sent after the
\* letter was typed.
QualifiedJobIsSubmitted ==
  ~faults =>
    \A i \in Loops :
      LET l == loops[i]
      IN  (/\ l.pc = "jobBack"
           /\ l.titleResult.relevant
           /\ l.fitResult.relevant
           /\ ~l.job.applied)
            => (l.job.sent = "submitted" /\ l.job.typed /\ l.created.op = "submitted")

\* C29: a job rejected by a gate is recorded as skipped with the rejecting
\* gate's score: the create request of recordSkippedJob is sent only for a
\* rejected job, after its find request, and when the store accepts it the
\* record of the job url has status skipped, the reason text with the score
\* and the score as matchScore; when the store answers conflict a record exists
\* and nothing is written; when a record of the job url exists at the find
\* request, no create request follows and the table is left as it is.  Without
\* faults every create request is answered 201 or 409.
RejectedJobIsRecorded ==
  [][\A i \in Loops :
       LET l == loops[i]
           m == loops'[i]
           result == IF l.stage = "title" THEN l.titleResult ELSE l.fitResult
           word == IF l.stage = "title" THEN "Title mismatch" ELSE "Description mismatch"
           rows == ApplicationRows(applicationTable, currentUserId, FullJobUrl(l))
           rowsAfter == ApplicationRows(applicationTable', currentUserId, FullJobUrl(l))
       IN  /\ (l.pc = "skipCreate" /\ m # l /\ quit' # "done") =>
                /\ ~result.relevant
                /\ l.stage = "title" \/ l.titleResult.relevant
                /\ m.created.op = "skipped"
                /\ ~faults => m.created.status \in {201, 409}
                /\ m.created.status = 201 =>
                     /\ rows = {}
                     /\ \E row \in rowsAfter :
                          /\ applicationTable' = applicationTable \cup {row}
                          /\ row.status = "skipped"
                          /\ row.matchScore = result.score
                          /\ row.coverLetter =
                               word \o " (Score: " \o ToString(result.score) \o ")"
                /\ m.created.status = 409 =>
                     (rows # {} /\ applicationTable' = applicationTable)
           /\ (l.pc = "skipCheck" /\ m # l /\ quit' # "done") =>
                /\ ~result.relevant
                /\ applicationTable' = applicationTable
                /\ rows # {} => m.pc # "skipCreate"
                /\ (rows = {} /\ ~faults) => m.pc = "skipCreate"]_vars

\* A job was rejected by the description gate and the store holds its skipped
\* record with the gate's score.
RejectedJobIsRecordedWitness ==
  \E i \in Loops :
    /\ loops[i].pc = "jobBack"
    /\ loops[i].stage = "description"
    /\ loops[i].job.sent = "skipped"
    /\ loops[i].created.status = 201
    /\ \E row \in ApplicationRows(applicationTable, currentUserId, FullJobUrl(loops[i])) :
         /\ row.status = "skipped"
         /\ row.matchScore = loops[i].fitResult.score
         /\ row.coverLetter = "Description mismatch (Score: 0)"

\* C30: when the job's page shows the "Applied" marker the job is skipped:
\* the description gate is not asked, no cover letter is generated, no create
\* request is sent, and the loop's next step is page.goBack(), which without
\* faults and in a single run lands on the company's page.
AppliedJobIsSkipped ==
  /\ [](\A i \in Loops :
          loops[i].job.applied =>
            /\ \/ loops[i].pc = "jobBack"
               \/ loops[i].pc = "ended" /\ loops[i].failedAt = "jobBack"
            /\ loops[i].fitResult = NoResult
            /\ loops[i].coverLetter = ""
            /\ loops[i].job = [NoJob EXCEPT !.applied = TRUE])
  /\ [][\A i \in Loops :
          (loops[i].job.applied /\ loops'[i] # loops[i] /\ quit' # "done") =>
            /\ UNCHANGED <<companyTable, applicationTable, nextId>>
            /\ \/ page' = ScrollTo(GoBack(page), loops[i].companyScrollY)
               \/ faults /\ loops'[i].exit = "error"
            /\ (~faults /\ ~Restarted) =>
                 page'.url = GetFullUrl(RelativeUrl(loops[i]))]_vars

\* The marker was seen on the job's page: the loop is about to go back, with
\* no description result and no cover letter.
AppliedJobIsSkippedWitness ==
  \E i \in Loops :
    /\ loops[i].job.applied
    /\ loops[i].pc = "jobBack"
    /\ page.url = FullJobUrl(loops[i])
    /\ loops[i].titleResult.relevant

\* C35: in every reachable state of the main process, isPaused = true
\* implies automationRunning = true, whatever start, pause, resume and stop
\* signals were delivered.
PausedImpliesRunning == isPaused => automationRunning

\* The run is paused after a stop signal was followed by a start and a pause.
PausedImpliesRunningWitness == isPaused /\ automationRunning /\ stopSeen

\* C36 (as stated): automationRunning is true only while a traversal loop is
\* executing: after a run has ended, through a failed setup or an error that
\* escaped the loop, the flag is false.
RunningOnlyWhileLooping ==
  automationRunning => \E i \in Loops : ~Settled(i)

\* C37 (as stated): a pause signal delivered while no run is active (no
\* invocation of the start handler is between its entry and its return) leaves
\* both flags unchanged, a resume signal delivered while the run is not both
\* running and paused leaves both flags unchanged, and neither signal changes
\* automationRunning.
SignalsOutsideRunAreIgnored ==
  [][/\ (Pause /\ \A i \in Loops : Settled(i))
          => UNCHANGED <<automationRunning, isPaused>>
     /\ (Resume /\ ~(automationRunning /\ isPaused))
          => UNCHANGED <<automationRunning, isPaused>>
     /\ (Pause \/ Resume) => UNCHANGED automationRunning]_vars

\* C38: the embedding cache never holds an empty vector.  A request whose
\* embedding call comes back empty, or whose normalized text is empty, returns
\* without a cache write, and a request that finds no row of its text goes on
\* to the embedding call (unless the lookup itself fails), so a failure is
\* never replayed from the cache.
CacheHoldsNoEmptyVector ==
  /\ [](\A row \in embeddingCache :
          row.embedding # << >> /\ row.normalizedText # << >>)
  /\ [][\A r \in AiSlots :
          LET n == NormalizeEmbeddingText(aiReq[r].text)
          IN  /\ (aiReq[r].pc = "embed" /\ aiReq'[r].pc = "idle")
                   => /\ aiLast'.embedding = << >>
                      /\ aiLast'.result = FailOpen
                      /\ embeddingCache' = embeddingCache
                      /\ embedCalls'[n] = embedCalls[n] + 1
              /\ (aiReq' = aiReq /\ aiBegun' # aiBegun)
                   => /\ embeddingCache' = embeddingCache
                      /\ embedCalls' = embedCalls
                      /\ aiLast'.embedding = << >>
                      /\ aiLast'.result = FailOpen
              /\ (aiReq[r].pc = "lookup" /\ aiReq'[r] # aiReq[r]
                    /\ ~CacheHas(embeddingCache, n))
                   => \/ aiReq'[r].pc = "embed"
                      \/ aiReq'[r].pc = "idle" /\ aiLast'.result = FailOpen]_vars

\* The embedding call of a text came back empty a second time: nothing is
\* cached, and the requests did not overlap.
CacheHoldsNoEmptyVectorWitness ==
  /\ ~aiOverlap
  /\ embeddingCache = {}
  /\ aiLast.embedding = << >>
  /\ aiLast.profile # << >>
  /\ \E n \in Norms : n # << >> /\ embedCalls[n] = 2

\* C32 (as stated): when the loop moves on to the next company of a scan,
\* after a visit or after a company page that failed to load, the page is on
\* the listing: at the scroll offset captured before the listing was left when
\* going back worked, and otherwise through page.goto of the listing URL.
BackOnListingBeforeNextCompany ==
  [][\A i \in Loops :
       (/\ loops[i].pc \in {"companyLoad", "listBack"}
        /\ loops'[i].ci = loops[i].ci + 1
        /\ quit' # "done")
         => /\ IsListUrl(page'.url)
            /\ \/ page' = ScrollTo(GoBack(page), loops[i].listScrollY)
               \/ page' = Goto(GoBack(page), ListUrl)]_vars

\* C34 (as stated): within one company visit a job URL goes through the
\* relevance gates and the drafting step at most once.  The loop is at the
\* title gate only with a link whose target no earlier link of the page that
\* passed the title filter has, and, in a run of one invocation that visited
\* no company twice, at the generation only for a job URL that has no
\* submitted record yet.
JobUrlProcessedOnce ==
  \A i \in Loops :
    LET l == loops[i]
    IN  /\ l.pc = "titleGate" =>
             \A j \in 1..(l.ji - 1) :
               l.jobLinks[j].href = JobLinkOf(l).href
                 => TitleFiltered(Trim(l.jobLinks[j].text))
        /\ (l.pc = "generate" /\ ~Restarted /\ companyVisits.again = {}) =>
             ~\E row \in ApplicationRows(applicationTable, currentUserId, FullJobUrl(l)) :
                row.status = "submitted"

\* C33: a paused run is held at its poll points.  The loop enters the work on
\* a job or a company only when the run is running and not paused; while every
\* loop is waiting in a pause poll nothing changes the page or the store; a
\* waiting loop keeps its locals; and when its poll ends it goes on, without a
\* navigation or a store request in that step, with the very job link or
\* company it was waiting before (the same index into the same list) when the
\* run is running, and leaves the loop when the run was stopped.
PauseHoldsTheLoop ==
  [][/\ \A i \in Loops :
          LET l == loops[i]
              m == loops'[i]
          IN  /\ (m.pc # l.pc /\ m.pc \in {"jobRead", "createCompany"})
                   => (automationRunning /\ ~isPaused)
              /\ (l.pc \in SleepPcs /\ m.pc = l.pc /\ quit' # "done")
                   => m = [l EXCEPT !.stoppedPaused = m.stoppedPaused]
              /\ (l.pc \in SleepPcs /\ m.pc # l.pc /\ quit' # "done")
                   => /\ ~(isPaused /\ automationRunning)
                      /\ UNCHANGED <<page, companyTable, applicationTable, nextId>>
                      /\ l.pc = "jobSleep" =>
                           m = [l EXCEPT !.pc = IF automationRunning THEN "jobRead"
                                                ELSE "listBack"]
                      /\ l.pc = "companySleep" =>
                           IF automationRunning
                           THEN m = [l EXCEPT !.pc = "createCompany"]
                           ELSE m.pc = "ended" /\ m.exit = "stopped"
                      /\ l.pc = "outerSleep" =>
                           IF automationRunning
                           THEN m.pc \in {"waitLinks", "listGoto"}
                           ELSE m.pc = "ended" /\ m.exit = "stopped"
     /\ ((\A i \in Loops : loops[i].pc \in SleepPcs \cup {"idle", "ended"})
           /\ quit' # "done")
          => UNCHANGED <<page, companyTable, applicationTable, nextId, currentUserId>>]_vars

\* The run is paused before the second job link of a company page, after the
\* first job was recorded; the loop waits in the job poll.
PauseHoldsTheLoopWitness ==
  \E i \in Loops :
    /\ isPaused /\ automationRunning
    /\ loops[i].pc = "jobSleep"
    /\ loops[i].ji = 2
    /\ page.url = GetFullUrl(RelativeUrl(loops[i]))
    /\ ApplicationRows(applicationTable, currentUserId,
                       GetFullUrl(loops[i].jobLinks[1].href)) # {}

\* C31: after a stop signal the running loop winds down: once the call that
\* was in flight has returned, the loop issues no further gate, generation,
\* store or scan step and starts no company and no job; it only waits out a
\* poll, goes back from the job page, returns to the list, or has ended.
StopEndsTheLoop ==
  [][\A i \in Loops :
       (/\ stopSeen /\ ~automationRunning /\ quit' # "done"
        /\ ~Settled(i) /\ loops'[i].pc # loops[i].pc)
         => loops'[i].pc \in SleepPcs \cup {"jobBack", "listBack", "ended"}]_vars

\* C39: the verdict a call of the local title gate returns is the verdict
\* computed for the call's title against the profile vector passed in that
\* call (or the fail-open verdict when no embedding was obtained), also after
\* the profile was replaced by another vector of the same length.
VerdictIsForThePassedProfile ==
  titleLast # NoTitleLast =>
    titleLast.result \in
      { TitleVerdict(TitleEmbedding(titleLast.jobTitle), titleLast.userProfileEmbedding),
        TitleFailOpen }

\* C40: the title cache never holds more than MAX_CACHE_SIZE entries, its
\* keys are distinct, and every update appends one entry for a key it did
\* not hold, after dropping the oldest entry when the cache was full.
TitleCacheIsBounded ==
  /\ [](/\ Len(jobTitleCache) <= MAX_CACHE_SIZE
        /\ \A j, k \in 1..Len(jobTitleCache) :
             jobTitleCache[j].key = jobTitleCache[k].key => j = k)
  /\ [][jobTitleCache' # jobTitleCache =>
          /\ jobTitleCache' # << >>
          /\ SubSeq(jobTitleCache', 1, Len(jobTitleCache') - 1) =
               (IF Len(jobTitleCache) = MAX_CACHE_SIZE THEN Tail(jobTitleCache)
                ELSE jobTitleCache)
          /\ ~TitleCacheHas(jobTitleCache, jobTitleCache'[Len(jobTitleCache')].key)
          /\ jobTitleCache'[Len(jobTitleCache')].value # TitleFailOpen]_vars

\* The cache is full after more than MAX_CACHE_SIZE verdicts were stored: the
\* oldest titles are gone and the latest is the last entry.
TitleCacheIsBoundedWitness ==
  /\ titlesStored > MAX_CACHE_SIZE
  /\ Len(jobTitleCache) = MAX_CACHE_SIZE
  /\ jobTitleCache[1].key[1] = TitleText(titlesStored - MAX_CACHE_SIZE + 1)
  /\ jobTitleCache[MAX_CACHE_SIZE].key[1] = TitleText(titlesStored)

====
